---- MODULE Spec2Model ----
(***************************************************************************)
(* Multi-agent orchestration core: BaseAgent (base-agent.ts) and the       *)
(* AgentOrchestrator registry with the composition strategies              *)
(* (lib/agents/chains/orchestrator.ts).  The query engine of the SDK is    *)
(* an external collaborator: every event it emits, its ending and its      *)
(* raising are nondeterministic choices.                                   *)
(*                                                                         *)
(* Texts are sequences of tokens (one-character strings, or whole literal  *)
(* fragments of a template), so that parsing and concatenation are         *)
(* computed and not assumed.                                               *)
(***************************************************************************)
EXTENDS Integers, Sequences, FiniteSets, TLC

VARIABLES
    agents,          \* AgentOrchestrator.agents: name -> BaseAgent (its sessionId)
    handoffHistory,  \* AgentOrchestrator.handoffHistory
    currentAgent,    \* AgentOrchestrator.currentAgent
    run,             \* the BaseAgent.run call in flight (registry / sequential strategies)
    ret,             \* the last public call that completed, with its outcome
    invocations,     \* the query() calls made by the current (or last) public call
    found,           \* history: an execute or handoff has found its agent
                     \* since construction or the last reset
    strategy,        \* the composition strategy call in flight, or the last one
    adhoc,           \* the BaseAgents that call has constructed, in order
    loops,           \* the run call of each of them
    received,        \* history: for each registered agent, the session_id of
                     \* the last result event it has consumed since it was
                     \* constructed or last reset (Undefined: none)
    held,            \* the array the caller got from getHandoffHistory, as the
                     \* caller has changed it since: its records, and for each
                     \* its index in handoffHistory while the record object is
                     \* an element of the registry's history (alias, else 0)
    ralph            \* .ralph/scripts/run_loop.sh for one prompt: the process
                     \* (pc, ITERATION, how it last ended), the state file
                     \* and the completion mark of specs/implementation.mmd

regVars == <<agents, handoffHistory, currentAgent, run, ret, found, received, held,
            ralph>>

stratVars == <<strategy, adhoc, loops, ralph>>

vars == <<agents, handoffHistory, currentAgent, run, ret, invocations, found,
          strategy, adhoc, loops, received, held, ralph>>

----------------------------------------------------------------------------
(* JavaScript values *)

Undefined == "<undefined>"
Null == "<null>"

\* an absent text or list (texts are sequences; "" is the empty sequence)
UndefinedText == <<"<undefined>">>
\* an absent number
UndefinedNum == -1

\* JavaScript truthiness of a string-or-null/undefined value
Truthy(x) == x # Null /\ x # Undefined /\ x # ""

----------------------------------------------------------------------------
(* Bounds and input domains *)

MaxHistory == 2
MaxStages == 3
MaxAgents == 3
MaxOptions == 3
\* events one stream call takes from its engine
MaxEvents == 3
\* run calls made on one agent without waiting for one another
MaxCalls == 2

\* all sequences over S of length at most n
SeqsUpTo(S, n) == UNION {[1..k -> S] : k \in 0..n}

StageNames == {"a", "b"}
Inputs == {<<"i", "n">>}
\* result texts of the stages' engines: an empty and a non-empty one
StageTexts == {<<>>, <<"o", "k">>}

\* names agents are registered under, and names calls are made with ("b" is
\* never registered)
RegNames == {"", "a"}
Names == RegNames \cup {"b"}
SessionIds == {"s1", "s2"}
Tasks == {"task"}
Contexts == {"ctx"}

\* handoff's data argument: absent, a falsy value, a plain object, an object
\* JSON.stringify cannot serialise (a circular reference)
DataAbsent == Undefined
DataZero == "0"
DataObject == "{k:1}"
DataCircular == "<circular>"
DataValues == {DataAbsent, DataZero, DataObject, DataCircular}

\* the calls made to a registry whose caller changes the arrays it is given
CopyNames == {"a"}
CopyData == {DataAbsent, DataObject}

\* what that caller writes: a record of its own, a context text
CallerRecords ==
    {[fromAgent |-> "z", toAgent |-> "z", context |-> "mine", data |-> DataAbsent]}
CallerContexts == {"changed"}

----------------------------------------------------------------------------
(* The query engine: events and raised errors *)

Usage == [input_tokens |-> 3, output_tokens |-> 5]
CostUsd == 1

AssistantMessage == [type |-> "assistant"]

SuccessMessage(sid, text) ==
    [type |-> "result", subtype |-> "success", session_id |-> sid,
     result |-> text, num_turns |-> 1, usage |-> Usage,
     total_cost_usd |-> CostUsd, errors |-> UndefinedText]

\* errs = UndefinedText: the event has no "errors" property
ErrorMessage(subtype, sid, errs) ==
    [type |-> "result", subtype |-> subtype, session_id |-> sid,
     result |-> UndefinedText, num_turns |-> 1, usage |-> Usage,
     total_cost_usd |-> CostUsd, errors |-> errs]

ErrorSubtypes == {"error_max_turns"}
ResultTexts == {<<"o", "k">>}

\* the events an engine may emit, given the session identifiers, the result
\* texts and the sub-error lists it may report
Messages(sids, texts, errs) ==
    {AssistantMessage}
    \cup {SuccessMessage(sid, t) : sid \in sids, t \in texts}
    \cup {ErrorMessage(st, sid, e) : st \in ErrorSubtypes, sid \in sids, e \in errs}

\* the events of the engine behind a registered agent
RegistryMessages == Messages(SessionIds, ResultTexts, {UndefinedText, <<"e1">>})

\* the events of the engine behind an agent used on its own
AgentMessages == Messages(SessionIds, ResultTexts, {UndefinedText, <<"e1">>})

\* the events of the engine behind the agent of that registry
CopyMessages == {SuccessMessage("s1", <<"o", "k">>)}

\* the events of the engine behind a stage of a sequential strategy
StageMessages == Messages({"s1"}, StageTexts, {UndefinedText})

\* what the engine may throw: an Error with a message, or a non-Error value
Thrown == {[isError |-> TRUE, message |-> "boom"],
           [isError |-> FALSE, message |-> "<not an Error>"]}

\* the agent lists of a fan-out of n agents: pairwise distinct names, the
\* last name repeating the first, the first two names equal, all names equal
NamePool == <<"a", "b", "c", "d", "e">>
NameLists(n) ==
    {[j \in 1..n |-> NamePool[j]],
     [j \in 1..n |-> IF j = n THEN NamePool[1] ELSE NamePool[j]],
     [j \in 1..n |-> IF j = 2 THEN NamePool[1] ELSE NamePool[j]],
     [j \in 1..n |-> NamePool[1]]}

ParSpecs == {[j \in DOMAIN names |-> [name |-> names[j], transform |-> "none"]] :
                names \in UNION {NameLists(n) : n \in 0..MaxAgents}}

\* the option lists of a consensus call
OptionPool == <<"A", "B", "C", "D", "E">>
OptionLists == {SubSeq(OptionPool, 1, n) : n \in 0..MaxOptions}
Questions == {"q"}

\* the option list of the consensus calls whose agents run concurrently
ParOptionLists == {SubSeq(OptionPool, 1, 2)}

\* result texts of the agents of a fan-out
ParTexts == {<<"2">>, <<"x">>}

\* the events of the engine behind an agent of a fan-out
ParMessages == Messages({"s1"}, ParTexts, {UndefinedText})

\* answers to a voting prompt: choices in and out of range, a choice followed
\* by text, a number of two digits, text before the number, a leading zero,
\* no text at all
VoteTexts == {<<"1">>, <<"2", ".", "B">>, <<"3">>, <<"0">>, <<"1", "2">>,
              <<"x", "1">>, <<"0", "2">>, <<>>}

\* the result events the runs of a consensus call end on
VoteMessages ==
    {SuccessMessage("s1", t) : t \in VoteTexts}
    \cup {ErrorMessage("error_max_turns", "s1", UndefinedText)}

\* the delegate lists runWithSupervisor is called with, and its base prompt
DelegateLists ==
    {[j \in 1..n |-> [name |-> NamePool[j], description |-> "helps"]] :
        n \in 0..MaxAgents}
SupervisorPrompts == {"lead"}

\* the stage lists of the chains and pipelines of the strategies taken
\* together
StrategyStages ==
    {[j \in 1..n |-> [name |-> NamePool[j], transform |-> "none"]] :
        n \in 0..MaxStages}

\* the events of the engines behind the agents of the strategies taken
\* together; the result text "a" is an answer that names a delegate
StrategyMessages == Messages({"s1"}, {<<"o", "k">>, <<"a">>}, {UndefinedText})

\* a pipeline stage's transform: absent, a function, a function that raises
Transforms == {"none", "mark", "raise"}

\* the stage lists runPipeline is called with
PipelineSpecs == SeqsUpTo([name : StageNames, transform : Transforms], MaxStages)

\* the stage lists runSequentialChain is called with
ChainSpecs == {[j \in DOMAIN names |-> [name |-> names[j], transform |-> "none"]] :
                  names \in SeqsUpTo(StageNames, MaxStages)}

----------------------------------------------------------------------------
(* AgentResult *)

AgentResult(success, result, sessionId, numTurns, usage, cost, error, errors) ==
    [success |-> success, result |-> result, sessionId |-> sessionId,
     numTurns |-> numTurns, usage |-> usage, totalCostUsd |-> cost,
     error |-> error, errors |-> errors]

UndefinedUsage == [inputTokens |-> UndefinedNum, outputTokens |-> UndefinedNum]

Failure(error) ==
    AgentResult(FALSE, UndefinedText, Undefined, UndefinedNum, UndefinedUsage,
                UndefinedNum, error, UndefinedText)

NoResultReceived == Failure(<<"No result received">>)

\* base-agent.ts 58-78: the AgentResult of a result event
MapResult(resultMsg) ==
    IF resultMsg.subtype = "success"
    THEN AgentResult(TRUE, resultMsg.result, resultMsg.session_id,
                     resultMsg.num_turns,
                     [inputTokens |-> resultMsg.usage.input_tokens,
                      outputTokens |-> resultMsg.usage.output_tokens],
                     resultMsg.total_cost_usd, UndefinedText, UndefinedText)
    ELSE AgentResult(FALSE, UndefinedText, resultMsg.session_id,
                     resultMsg.num_turns, UndefinedUsage, UndefinedNum,
                     <<resultMsg.subtype>>, resultMsg.errors)

\* a bug CatchResult could have: the message of the error is dropped
CatchResultGeneric(error) == Failure(<<"Unknown error">>)

\* base-agent.ts 83-88: the catch block of run
CatchResult(error) ==
    Failure(IF error.isError THEN <<error.message>> ELSE <<"Unknown error">>)

\* a bug SessionAfterMessage could have: the session is assigned only once
SessionAssignedOnce(sessionId, message) ==
    IF message.type = "result" /\ sessionId = Undefined
    THEN message.session_id ELSE sessionId

\* a bug SessionAfterMessage could have: the assignment stands before the
\* test of the event's type, so that every event of the engine (here of its
\* session "s1") sets the session reference
SessionFromEveryEvent(sessionId, message) ==
    IF message.type = "result" THEN message.session_id ELSE "s1"

\* base-agent.ts 53-57: the session reference after the loop body saw message
SessionAfterMessage(sessionId, message) ==
    IF message.type = "result" THEN message.session_id ELSE sessionId

\* base-agent.ts 53-79: the local `result` after the loop body saw message
ResultAfterMessage(result, message) ==
    IF message.type = "result" THEN MapResult(message) ELSE result

\* a bug QueryCall could have: the session reference is not passed on
QueryCallNoResume(name, prompt, sessionId) ==
    [agent |-> name, prompt |-> prompt, resume |-> Undefined]

\* base-agent.ts 34-46: the options run passes to query()
QueryCall(name, prompt, sessionId) ==
    [agent |-> name, prompt |-> prompt, resume |-> sessionId]

\* base-agent.ts 20-27: a freshly constructed agent has no session
NewAgent == [sessionId |-> Undefined]

----------------------------------------------------------------------------
(* The public calls' outcomes *)

\* the arguments of a public call: a name, a text, a data payload
Args(name, text, data) == [name |-> name, text |-> text, data |-> data]
NoArgs == Args(Undefined, Undefined, Undefined)

NoValue == Failure(UndefinedText)
NoError == [isError |-> FALSE, message |-> Undefined]

\* no result event seen yet
NoMessage == [type |-> "none"]

\* terminal: the last result event the loop has consumed (history)
Idle == [pc |-> "idle", op |-> "none", args |-> NoArgs, agent |-> Undefined,
         result |-> NoValue, terminal |-> NoMessage]

\* outcome: "returned" with value (an AgentResult) or history (a list of
\* records), "threw" with error, "pending" while the call awaits the engine
\* terminal: the last result event of the run the call awaited (history)
Outcome(op, args, outcome, value, history, error, terminal) ==
    [op |-> op, args |-> args, outcome |-> outcome, value |-> value,
     history |-> history, error |-> error, terminal |-> terminal]

Returned(op, args, value, terminal) ==
    Outcome(op, args, "returned", value, <<>>, NoError, terminal)

ReturnedVoid(op, args) ==
    Outcome(op, args, "returned", NoValue, <<>>, NoError, NoMessage)

ReturnedHistory(op, args, history) ==
    Outcome(op, args, "returned", NoValue, history, NoError, NoMessage)

Threw(op, args, error) ==
    Outcome(op, args, "threw", NoValue, <<>>, error, NoMessage)

Pending(op, args) ==
    Outcome(op, args, "pending", NoValue, <<>>, NoError, NoMessage)

----------------------------------------------------------------------------
(* AgentOrchestrator *)

Registered(name) == name \in DOMAIN agents

\* a bug RegisterAgent could have: an agent already under the name is kept
RegisterAgentKeepsEntry(name) ==
    /\ run.pc = "idle"
    /\ agents' = [n \in DOMAIN agents \cup {name} |->
                    IF n \in DOMAIN agents THEN agents[n] ELSE NewAgent]
    /\ ret' = ReturnedVoid("registerAgent", Args(name, Undefined, Undefined))
    /\ invocations' = <<>>
    /\ UNCHANGED <<handoffHistory, currentAgent, run, found>>

\* orchestrator.ts 18-21
RegisterAgent(name) ==
    /\ run.pc = "idle"
    /\ agents' = [n \in DOMAIN agents \cup {name} |->
                    IF n = name THEN NewAgent ELSE agents[n]]
    /\ ret' = ReturnedVoid("registerAgent", Args(name, Undefined, Undefined))
    /\ invocations' = <<>>
    /\ UNCHANGED <<handoffHistory, currentAgent, run, found>>

\* The start of agent.run(prompt) for the registered agent `name`, up to its
\* first await: query() is called (base-agent.ts 34-46) and either raises,
\* which the catch block turns into the returned result, or hands back the
\* event sequence the loop then consumes.
StartRun(op, args, name, prompt) ==
    /\ invocations' = <<QueryCall(name, prompt, agents[name].sessionId)>>
    /\ \/ /\ run' = [pc |-> "loop", op |-> op, args |-> args, agent |-> name,
                     result |-> NoResultReceived, terminal |-> NoMessage]
          /\ ret' = Pending(op, args)
       \/ \E e \in Thrown :
            /\ run' = Idle
            /\ ret' = Returned(op, args, CatchResult(e), NoMessage)

\* a bug Execute could have: the cursor is moved before the agent is looked up
ExecuteCursorFirst(startAgent, task) ==
    /\ run.pc = "idle"
    /\ currentAgent' = startAgent
    /\ LET args == Args(startAgent, task, Undefined) IN
       IF ~Registered(startAgent)
       THEN /\ ret' = Returned("execute", args,
                               Failure(<<"Agent not found: ", startAgent>>),
                               NoMessage)
            /\ invocations' = <<>>
            /\ UNCHANGED <<agents, handoffHistory, run, found>>
       ELSE /\ found' = TRUE
            /\ StartRun("execute", args, startAgent, <<task>>)
            /\ UNCHANGED <<agents, handoffHistory>>

\* orchestrator.ts 33-44
Execute(startAgent, task) ==
    /\ run.pc = "idle"
    /\ LET args == Args(startAgent, task, Undefined) IN
       IF ~Registered(startAgent)
       THEN /\ ret' = Returned("execute", args,
                               Failure(<<"Agent not found: ", startAgent>>),
                               NoMessage)
            /\ invocations' = <<>>
            /\ UNCHANGED <<agents, handoffHistory, currentAgent, run, found>>
       ELSE /\ currentAgent' = startAgent
            /\ found' = TRUE
            /\ StartRun("execute", args, startAgent, <<task>>)
            /\ UNCHANGED <<agents, handoffHistory>>

\* a bug NoCurrentAgent could have: only `undefined` counts as no cursor
NoCurrentAgentStrict(cur) == cur = Undefined

\* orchestrator.ts 54: if (!this.currentAgent)
NoCurrentAgent(cur) == ~Truthy(cur)

\* orchestrator.ts 81: `data ? ... : ""`
DataTruthy(data) == data \notin {DataAbsent, DataZero}

\* whether JSON.stringify(data) returns (it raises on a circular structure)
Serialisable(data) == data # DataCircular

\* JSON.stringify(data, null, 2) of the data values
JSONStringify(data) ==
    CASE data = DataZero -> "0"
      [] data = DataObject -> "{\n  \"k\": 1\n}"
      [] OTHER -> Undefined

\* orchestrator.ts 78-84: the handoff message, trimmed
HandoffMessage(cur, context, data) ==
    <<"[HANDOFF FROM ", cur, "]\nContext: ", context, "\n">>
    \o (IF DataTruthy(data) THEN <<"Data: ", JSONStringify(data)>> ELSE <<"">>)
    \o <<"\n\nPlease continue with this task based on the context provided.">>

\* orchestrator.ts 70-75
HandoffRecord(cur, toAgent, context, data) ==
    [fromAgent |-> cur, toAgent |-> toAgent, context |-> context, data |-> data]

\* orchestrator.ts 54-59: no current agent
HandoffNoCurrent(args) ==
    /\ ret' = Returned("handoff", args,
                       Failure(<<"No current agent to hand off from">>),
                       NoMessage)
    /\ invocations' = <<>>
    /\ UNCHANGED <<agents, handoffHistory, currentAgent, run, found>>

\* a bug HandoffNoTarget could have: the handoff is recorded before the
\* target is looked up
HandoffNoTargetRecorded(args) ==
    /\ Len(handoffHistory) < MaxHistory
    /\ handoffHistory' = Append(handoffHistory,
            HandoffRecord(currentAgent, args.name, args.text, args.data))
    /\ ret' = Returned("handoff", args,
                       Failure(<<"Target agent not found: ", args.name>>),
                       NoMessage)
    /\ invocations' = <<>>
    /\ UNCHANGED <<agents, currentAgent, run, found>>

\* orchestrator.ts 61-67: the target is not registered
HandoffNoTarget(args) ==
    /\ ret' = Returned("handoff", args,
                       Failure(<<"Target agent not found: ", args.name>>),
                       NoMessage)
    /\ invocations' = <<>>
    /\ UNCHANGED <<agents, handoffHistory, currentAgent, run, found>>

\* a bug HandoffProceed could have: the record replaces the history
\* (`this.handoffHistory = [record]` for `push`)
HandoffProceedOverwrites(args) ==
    /\ Len(handoffHistory) < MaxHistory
    /\ handoffHistory' =
            <<HandoffRecord(currentAgent, args.name, args.text, args.data)>>
    /\ found' = TRUE
    /\ IF DataTruthy(args.data) /\ ~Serialisable(args.data)
       THEN /\ ret' = Threw("handoff", args,
                            [isError |-> TRUE, message |-> "circular structure"])
            /\ invocations' = <<>>
            /\ UNCHANGED <<agents, currentAgent, run>>
       ELSE /\ currentAgent' = args.name
            /\ StartRun("handoff", args, args.name,
                        HandoffMessage(currentAgent, args.text, args.data))
            /\ UNCHANGED agents

\* orchestrator.ts 69-87: record the handoff, build the message, move the
\* cursor, run the target.  JSON.stringify raises a TypeError on a circular
\* payload: the call ends there, its promise rejected, after line 75 and
\* before line 86.
HandoffProceed(args) ==
    /\ Len(handoffHistory) < MaxHistory
    /\ handoffHistory' = Append(handoffHistory,
            HandoffRecord(currentAgent, args.name, args.text, args.data))
    /\ found' = TRUE
    /\ IF DataTruthy(args.data) /\ ~Serialisable(args.data)
       THEN /\ ret' = Threw("handoff", args,
                            [isError |-> TRUE, message |-> "circular structure"])
            /\ invocations' = <<>>
            /\ UNCHANGED <<agents, currentAgent, run>>
       ELSE /\ currentAgent' = args.name
            /\ StartRun("handoff", args, args.name,
                        HandoffMessage(currentAgent, args.text, args.data))
            /\ UNCHANGED agents

\* orchestrator.ts 49-88
Handoff(toAgent, context, data) ==
    /\ run.pc = "idle"
    /\ LET args == Args(toAgent, context, data) IN
       IF NoCurrentAgent(currentAgent) THEN HandoffNoCurrent(args)
       ELSE IF ~Registered(toAgent) THEN HandoffNoTarget(args)
       ELSE HandoffProceed(args)

\* orchestrator.ts 93-95
GetHandoffHistory ==
    /\ run.pc = "idle"
    /\ ret' = ReturnedHistory("getHandoffHistory", NoArgs, handoffHistory)
    /\ invocations' = <<>>
    /\ UNCHANGED <<agents, handoffHistory, currentAgent, run, found>>

\* a bug Reset could have: the agents are not reset
ResetKeepsSessions ==
    /\ run.pc = "idle"
    /\ agents' = agents
    /\ handoffHistory' = <<>>
    /\ currentAgent' = Null
    /\ found' = FALSE
    /\ ret' = ReturnedVoid("reset", NoArgs)
    /\ invocations' = <<>>
    /\ UNCHANGED run

\* orchestrator.ts 100-104
Reset ==
    /\ run.pc = "idle"
    /\ agents' = [n \in DOMAIN agents |-> [agents[n] EXCEPT !.sessionId = Undefined]]
    /\ handoffHistory' = <<>>
    /\ currentAgent' = Null
    /\ found' = FALSE
    /\ ret' = ReturnedVoid("reset", NoArgs)
    /\ invocations' = <<>>
    /\ UNCHANGED run

----------------------------------------------------------------------------
(* The caller of getHandoffHistory and the array it is given *)

\* orchestrator.ts 94: [...this.handoffHistory] is a new array whose
\* elements are the record objects of the history themselves
SpreadCopy(history) ==
    [k \in 1..Len(history) |-> [alias |-> k, record |-> history[k]]]

\* orchestrator.ts 93-95, the caller keeping the array
GetHandoffHistoryKept ==
    /\ GetHandoffHistory
    /\ held' = SpreadCopy(handoffHistory)

\* orchestrator.ts 100-104, seen from the caller: reset assigns a new array
\* to handoffHistory, so no record the caller holds is in the history any more
ResetKept ==
    /\ Reset
    /\ held' = [k \in 1..Len(held) |-> [held[k] EXCEPT !.alias = 0]]

\* the caller pushes a record of its own onto the array it holds
CallerPushes(record) ==
    /\ run.pc = "idle"
    /\ Len(held) < MaxHistory
    /\ held' = Append(held, [alias |-> 0, record |-> record])
    /\ UNCHANGED <<agents, handoffHistory, currentAgent, run, ret, invocations,
                   found, received>>

\* the caller pops the last element off the array it holds
CallerPops ==
    /\ run.pc = "idle"
    /\ held # <<>>
    /\ held' = SubSeq(held, 1, Len(held) - 1)
    /\ UNCHANGED <<agents, handoffHistory, currentAgent, run, ret, invocations,
                   found, received>>

\* the caller reverses the array it holds
CallerReverses ==
    /\ run.pc = "idle"
    /\ Len(held) >= 2
    /\ held' = [k \in 1..Len(held) |-> held[Len(held) + 1 - k]]
    /\ UNCHANGED <<agents, handoffHistory, currentAgent, run, ret, invocations,
                   found, received>>

\* the caller assigns to the context field of the i-th record it holds: the
\* record is one object, whichever arrays it is an element of
CallerWritesContext(i, context) ==
    /\ run.pc = "idle"
    /\ i \in 1..Len(held)
    /\ held[i].record.context # context
    /\ held' = [held EXCEPT ![i].record.context = context]
    /\ handoffHistory' =
          IF held[i].alias = 0 THEN handoffHistory
          ELSE [handoffHistory EXCEPT ![held[i].alias].context = context]
    /\ UNCHANGED <<agents, currentAgent, run, ret, invocations, found, received>>

----------------------------------------------------------------------------
(* BaseAgent.run, the loop over the engine's events (base-agent.ts 53-89) *)

\* one iteration of `for await (const message of q)`
RunMessage(message) ==
    /\ run.pc = "loop"
    /\ agents' = [agents EXCEPT ![run.agent].sessionId =
                      SessionAfterMessage(@, message)]
    /\ run' = [run EXCEPT !.result = ResultAfterMessage(@, message),
                          !.terminal = IF message.type = "result"
                                       THEN message ELSE @]
    /\ UNCHANGED <<handoffHistory, currentAgent, ret, invocations, found>>

\* the event sequence ends: return result (line 82)
RunReturn ==
    /\ run.pc = "loop"
    /\ ret' = Returned(run.op, run.args, run.result, run.terminal)
    /\ run' = Idle
    /\ UNCHANGED <<agents, handoffHistory, currentAgent, invocations, found>>

\* the event sequence raises: the catch block (lines 83-88)
RunCatch(error) ==
    /\ run.pc = "loop"
    /\ ret' = Returned(run.op, run.args, CatchResult(error), run.terminal)
    /\ run' = Idle
    /\ UNCHANGED <<agents, handoffHistory, currentAgent, invocations, found>>

----------------------------------------------------------------------------
(* History of the result events the registered agents have consumed *)

\* orchestrator.ts 19, base-agent.ts 18: the agent under `name` is new
NoteConstructed(name) ==
    received' = [n \in DOMAIN agents \cup {name} |->
                    IF n = name THEN Undefined ELSE received[n]]

\* orchestrator.ts 101, base-agent.ts 226-228: every agent is reset
NoteReset == received' = [n \in DOMAIN agents |-> Undefined]

\* base-agent.ts 53-55: the agent of the run in flight consumes message
NoteReceived(message) ==
    received' = IF message.type = "result"
                THEN [received EXCEPT ![run.agent] = message.session_id]
                ELSE received

----------------------------------------------------------------------------
(* JavaScript Map: keys in insertion order; set on a present key keeps its place *)

MapHas(m, k) == \E j \in 1..Len(m) : m[j].key = k

MapIndex(m, k) == CHOOSE j \in 1..Len(m) : m[j].key = k

MapGet(m, k) == m[MapIndex(m, k)].value

\* a bug MapSet could have: a key already present keeps its value
MapSetKeepsFirst(m, k, v) ==
    IF MapHas(m, k) THEN m ELSE Append(m, [key |-> k, value |-> v])

MapSet(m, k, v) ==
    IF MapHas(m, k)
    THEN [m EXCEPT ![MapIndex(m, k)] = [key |-> k, value |-> v]]
    ELSE Append(m, [key |-> k, value |-> v])

MapKeys(m) == {m[j].key : j \in 1..Len(m)}

----------------------------------------------------------------------------
(* Ad hoc agents: createAgent and the run calls of the strategies *)

\* base-agent.ts 234-244: createAgent(name, systemPrompt)
CreateAgent(name) == [name |-> name, sessionId |-> Undefined]

\* what query() does when run calls it: it returns the event sequence
\* (NoError) or raises
QueryOutcomes == {NoError} \cup Thrown

\* what the engine behind an agent of a fan-out may throw, and what its
\* query() does
ParThrown == {[isError |-> TRUE, message |-> "boom"]}
ParQueryOutcomes == {NoError} \cup ParThrown

\* a bug LoopAfterQuery could have: `result` starts without its default
LoopStartsWithoutDefault(q) ==
    IF q = NoError
    THEN [pc |-> "loop", result |-> NoValue, terminal |-> NoMessage]
    ELSE [pc |-> "done", result |-> CatchResult(q), terminal |-> NoMessage]

\* base-agent.ts 32-51, 83-88: run up to its first await
LoopAfterQuery(q) ==
    IF q = NoError
    THEN [pc |-> "loop", result |-> NoResultReceived, terminal |-> NoMessage]
    ELSE [pc |-> "done", result |-> CatchResult(q), terminal |-> NoMessage]

\* a bug ConstructAndRun could have: the new agent is given the session of
\* the agent of the stage before
ConstructAndRunResuming(name, prompt, q) ==
    /\ adhoc' = Append(adhoc, [CreateAgent(name) EXCEPT
                                  !.sessionId = adhoc[Len(adhoc)].sessionId])
    /\ loops' = Append(loops, LoopAfterQuery(q))
    /\ invocations' = Append(invocations,
                             QueryCall(name, prompt, adhoc[Len(adhoc)].sessionId))

\* createAgent(name, ...) followed by agent.run(prompt), up to run's first await
ConstructAndRun(name, prompt, q) ==
    /\ adhoc' = Append(adhoc, CreateAgent(name))
    /\ loops' = Append(loops, LoopAfterQuery(q))
    /\ invocations' = Append(invocations,
                             QueryCall(name, prompt, CreateAgent(name).sessionId))

\* base-agent.ts 53-79: one iteration of the loop of the i-th agent's run
AdhocMessage(i, message) ==
    /\ i \in 1..Len(loops)
    /\ loops[i].pc = "loop"
    /\ adhoc' = [adhoc EXCEPT ![i].sessionId = SessionAfterMessage(@, message)]
    /\ loops' = [loops EXCEPT ![i].result = ResultAfterMessage(@, message),
                              ![i].terminal = IF message.type = "result"
                                              THEN message ELSE @]
    /\ UNCHANGED <<strategy, invocations>>

\* base-agent.ts 82: the i-th agent's event sequence ends, run returns result
AdhocReturn(i) ==
    /\ i \in 1..Len(loops)
    /\ loops[i].pc = "loop"
    /\ loops' = [loops EXCEPT ![i].pc = "done"]
    /\ UNCHANGED <<strategy, adhoc, invocations>>

\* base-agent.ts 83-88: the i-th agent's event sequence raises
AdhocCatch(i, error) ==
    /\ i \in 1..Len(loops)
    /\ loops[i].pc = "loop"
    /\ loops' = [loops EXCEPT ![i].pc = "done", ![i].result = CatchResult(error)]
    /\ UNCHANGED <<strategy, adhoc, invocations>>

----------------------------------------------------------------------------
(* A BaseAgent used on its own: run, stream, getSessionId, setSessionId,
   reset.  The agent is adhoc[1]; loops holds its call in flight or its last
   call, and ret the outcome of the last call (ret.error: what the engine
   raised inside it).  A stream call also keeps, as history, the events its
   engine has emitted and the events it has yielded to its consumer. *)

SoloName == "solo"

\* no run or stream call on the agent is in flight
AgentIdle == IF loops = <<>> THEN TRUE ELSE loops[1].pc = "done"

SoloArgs(prompt) == Args(SoloName, prompt, Undefined)

\* a call that returned value after the engine raised error (NoError: it
\* did not raise)
Caught(op, args, value, error, terminal) ==
    Outcome(op, args, "returned", value, <<>>, error, terminal)

\* base-agent.ts 32-51, 83-88: agent.run(prompt) up to its first await
AgentRun(prompt, q) ==
    /\ AgentIdle
    /\ loops' = <<LoopAfterQuery(q)>>
    /\ invocations' = <<QueryCall(SoloName, <<prompt>>, adhoc[1].sessionId)>>
    /\ ret' = IF q = NoError THEN Pending("run", SoloArgs(prompt))
              ELSE Caught("run", SoloArgs(prompt), CatchResult(q), q, NoMessage)
    /\ UNCHANGED <<adhoc, strategy>>

\* base-agent.ts 53-79: one iteration of run's loop
AgentRunMessage(message) ==
    /\ AdhocMessage(1, message)
    /\ UNCHANGED ret

\* base-agent.ts 82: return result
AgentRunReturn ==
    /\ AdhocReturn(1)
    /\ ret' = Caught("run", ret.args, loops[1].result, NoError, loops[1].terminal)

\* a variant AgentRunCatch could be: the catch block puts the session
\* reference back to what it was when the call started
AgentRunCatchRestores(error) ==
    /\ loops # <<>> /\ loops[1].pc = "loop"
    /\ loops' = [loops EXCEPT ![1].pc = "done", ![1].result = CatchResult(error)]
    /\ adhoc' = [adhoc EXCEPT ![1].sessionId = invocations[1].resume]
    /\ ret' = Caught("run", ret.args, CatchResult(error), error, loops[1].terminal)
    /\ UNCHANGED <<strategy, invocations>>

\* base-agent.ts 83-88: the catch block
AgentRunCatch(error) ==
    /\ AdhocCatch(1, error)
    /\ ret' = Caught("run", ret.args, CatchResult(error), error, loops[1].terminal)

\* what getSessionId returned, carried in the sessionId field of the value
ReturnedSession(sessionId) ==
    Outcome("getSessionId", NoArgs, "returned",
            [NoValue EXCEPT !.sessionId = sessionId], <<>>, NoError, NoMessage)

\* base-agent.ts 212-214
GetSessionId ==
    /\ AgentIdle
    /\ ret' = ReturnedSession(adhoc[1].sessionId)
    /\ UNCHANGED <<adhoc, loops, invocations, strategy>>

\* a bug SetSessionId could have: a session already held is kept
SetSessionIdIfUnset(sessionId) ==
    /\ AgentIdle
    /\ adhoc' = [adhoc EXCEPT ![1].sessionId =
                                IF @ = Undefined THEN sessionId ELSE @]
    /\ loops' = <<>>
    /\ invocations' = <<>>
    /\ ret' = ReturnedVoid("setSessionId", Args(SoloName, sessionId, Undefined))
    /\ UNCHANGED strategy

\* base-agent.ts 219-221
SetSessionId(sessionId) ==
    /\ AgentIdle
    /\ adhoc' = [adhoc EXCEPT ![1].sessionId = sessionId]
    /\ loops' = <<>>
    /\ invocations' = <<>>
    /\ ret' = ReturnedVoid("setSessionId", Args(SoloName, sessionId, Undefined))
    /\ UNCHANGED strategy

\* base-agent.ts 226-228
AgentReset ==
    /\ AgentIdle
    /\ adhoc' = [adhoc EXCEPT ![1].sessionId = Undefined]
    /\ loops' = <<>>
    /\ invocations' = <<>>
    /\ ret' = ReturnedVoid("reset", NoArgs)
    /\ UNCHANGED strategy

\* base-agent.ts 119-141: the AgentResult stream makes of a result event
StreamMapResult(resultMsg) ==
    IF resultMsg.subtype = "success"
    THEN AgentResult(TRUE, resultMsg.result, resultMsg.session_id,
                     resultMsg.num_turns,
                     [inputTokens |-> resultMsg.usage.input_tokens,
                      outputTokens |-> resultMsg.usage.output_tokens],
                     resultMsg.total_cost_usd, UndefinedText, UndefinedText)
    ELSE AgentResult(FALSE, UndefinedText, resultMsg.session_id,
                     UndefinedNum, UndefinedUsage, UndefinedNum,
                     <<resultMsg.subtype>>, UndefinedText)

\* base-agent.ts 95: agent.stream(prompt) makes the generator; none of its
\* body runs before the consumer's first next()
AgentStream(prompt) ==
    /\ AgentIdle
    /\ loops' = <<[pc |-> "created", result |-> NoResultReceived,
                   terminal |-> NoMessage, pending |-> NoMessage,
                   emitted |-> <<>>, yielded |-> <<>>]>>
    /\ invocations' = <<>>
    /\ ret' = Pending("stream", SoloArgs(prompt))
    /\ UNCHANGED <<adhoc, strategy>>

\* base-agent.ts 96-115, 146-151: the consumer's first next() runs the body
\* up to the loop: query() is called with the session reference of that moment
StreamFirstNext(q) ==
    /\ loops # <<>> /\ loops[1].pc = "created"
    /\ invocations' = <<QueryCall(SoloName, <<ret.args.text>>, adhoc[1].sessionId)>>
    /\ IF q = NoError
       THEN /\ loops' = [loops EXCEPT ![1].pc = "pulling"]
            /\ UNCHANGED ret
       ELSE /\ loops' = [loops EXCEPT ![1].pc = "done", ![1].result = CatchResult(q)]
            /\ ret' = Caught("stream", ret.args, CatchResult(q), q, NoMessage)
    /\ UNCHANGED <<adhoc, strategy>>

\* a bug StreamYield could have: the event is handled before it is yielded
StreamYieldHandlesFirst(message) ==
    /\ loops # <<>> /\ loops[1].pc = "pulling"
    /\ Len(loops[1].emitted) < MaxEvents
    /\ adhoc' = [adhoc EXCEPT ![1].sessionId = SessionAfterMessage(@, message)]
    /\ loops' = [loops EXCEPT ![1].pc = "yielded", ![1].pending = message,
                              ![1].emitted = Append(@, message),
                              ![1].yielded = Append(@, message)]
    /\ UNCHANGED <<strategy, invocations, ret>>

\* a bug StreamYield could have: only the assistant events are yielded, a
\* result event is handled without the consumer seeing it
StreamYieldAssistantOnly(message) ==
    /\ loops # <<>> /\ loops[1].pc = "pulling"
    /\ Len(loops[1].emitted) < MaxEvents
    /\ IF message.type = "result"
       THEN /\ adhoc' = [adhoc EXCEPT ![1].sessionId = message.session_id]
            /\ loops' = [loops EXCEPT ![1].emitted = Append(@, message),
                                      ![1].result = StreamMapResult(message),
                                      ![1].terminal = message]
       ELSE /\ loops' = [loops EXCEPT ![1].pc = "yielded",
                                      ![1].pending = message,
                                      ![1].emitted = Append(@, message),
                                      ![1].yielded = Append(@, message)]
            /\ UNCHANGED adhoc
    /\ UNCHANGED <<strategy, invocations, ret>>

\* base-agent.ts 116-117: the engine emits message and the generator yields
\* it, suspended before it has looked at it
StreamYield(message) ==
    /\ loops # <<>> /\ loops[1].pc = "pulling"
    /\ Len(loops[1].emitted) < MaxEvents
    /\ loops' = [loops EXCEPT ![1].pc = "yielded", ![1].pending = message,
                              ![1].emitted = Append(@, message),
                              ![1].yielded = Append(@, message)]
    /\ UNCHANGED <<adhoc, strategy, invocations, ret>>

\* base-agent.ts 119-143: the consumer's next() resumes the generator after
\* the yield: the body handles the message it had yielded
StreamResume ==
    /\ loops # <<>> /\ loops[1].pc = "yielded"
    /\ LET message == loops[1].pending IN
       /\ adhoc' = [adhoc EXCEPT ![1].sessionId = SessionAfterMessage(@, message)]
       /\ loops' = [loops EXCEPT
                       ![1].pc = "pulling",
                       ![1].pending = NoMessage,
                       ![1].result = IF message.type = "result"
                                     THEN StreamMapResult(message) ELSE @,
                       ![1].terminal = IF message.type = "result"
                                       THEN message ELSE @]
    /\ UNCHANGED <<strategy, invocations, ret>>

\* the consumer stops iterating (break, or return() on the generator) while
\* the generator is suspended at the yield: the rest of the body never runs
StreamStop ==
    /\ loops # <<>> /\ loops[1].pc = "yielded"
    /\ loops' = [loops EXCEPT ![1].pc = "done"]
    /\ ret' = ReturnedVoid("stream", ret.args)
    /\ UNCHANGED <<adhoc, strategy, invocations>>

\* base-agent.ts 145: the event sequence ends, the generator returns result
StreamReturn ==
    /\ loops # <<>> /\ loops[1].pc = "pulling"
    /\ loops' = [loops EXCEPT ![1].pc = "done"]
    /\ ret' = Caught("stream", ret.args, loops[1].result, NoError, loops[1].terminal)
    /\ UNCHANGED <<adhoc, strategy, invocations>>

\* base-agent.ts 146-151: the event sequence raises, the catch block
StreamCatch(error) ==
    /\ loops # <<>> /\ loops[1].pc = "pulling"
    /\ loops' = [loops EXCEPT ![1].pc = "done", ![1].result = CatchResult(error)]
    /\ ret' = Caught("stream", ret.args, CatchResult(error), error, loops[1].terminal)
    /\ UNCHANGED <<adhoc, strategy, invocations>>

\* base-agent.ts 48-79: the local `result` and the session reference after
\* run's loop has consumed events, started from state
RECURSIVE RunLoop(_, _)
RunLoop(state, events) ==
    IF events = <<>> THEN state
    ELSE RunLoop([result |-> ResultAfterMessage(state.result, Head(events)),
                  sessionId |-> SessionAfterMessage(state.sessionId, Head(events))],
                 Tail(events))

\* base-agent.ts 32-89: what run returns and the session reference it leaves
\* when the engine emits events and then ends (error = NoError) or raises error
RunOver(sessionId, events, error) ==
    LET state == RunLoop([result |-> NoResultReceived, sessionId |-> sessionId],
                         events)
    IN [value |-> IF error = NoError THEN state.result ELSE CatchResult(error),
        sessionId |-> state.sessionId]

----------------------------------------------------------------------------
(* Run calls that overlap on one BaseAgent (two execute calls of a registry
   naming the same agent, the second made before the first has returned).
   The agent is adhoc[1]; loops[k] and invocations[k] are the k-th call made
   and its engine call; ret.terminal keeps, as history, the last result
   event any of the calls has handled. *)

\* base-agent.ts 32-51, 83-88: a further run(prompt) on the agent, up to its
\* first await
OverlapRun(prompt, q) ==
    /\ Len(loops) < MaxCalls
    /\ loops' = Append(loops, LoopAfterQuery(q))
    /\ invocations' = Append(invocations,
                             QueryCall(SoloName, <<prompt>>, adhoc[1].sessionId))
    /\ UNCHANGED <<adhoc, strategy, ret>>

\* a bug OverlapMessage could have: only the call made last moves the
\* session reference
OverlapMessageLastCallOnly(k, message) ==
    /\ k \in 1..Len(loops)
    /\ loops[k].pc = "loop"
    /\ adhoc' = [adhoc EXCEPT ![1].sessionId =
                     IF k = Len(loops) THEN SessionAfterMessage(@, message) ELSE @]
    /\ loops' = [loops EXCEPT ![k].result = ResultAfterMessage(@, message),
                              ![k].terminal = IF message.type = "result"
                                              THEN message ELSE @]
    /\ ret' = IF message.type = "result"
              THEN [ret EXCEPT !.terminal = message] ELSE ret
    /\ UNCHANGED <<strategy, invocations>>

\* base-agent.ts 53-79: one iteration of the loop of the k-th call
OverlapMessage(k, message) ==
    /\ k \in 1..Len(loops)
    /\ loops[k].pc = "loop"
    /\ adhoc' = [adhoc EXCEPT ![1].sessionId = SessionAfterMessage(@, message)]
    /\ loops' = [loops EXCEPT ![k].result = ResultAfterMessage(@, message),
                              ![k].terminal = IF message.type = "result"
                                              THEN message ELSE @]
    /\ ret' = IF message.type = "result"
              THEN [ret EXCEPT !.terminal = message] ELSE ret
    /\ UNCHANGED <<strategy, invocations>>

\* base-agent.ts 82: the k-th call returns result
OverlapReturn(k) ==
    /\ k \in 1..Len(loops)
    /\ loops[k].pc = "loop"
    /\ loops' = [loops EXCEPT ![k].pc = "done"]
    /\ UNCHANGED <<adhoc, strategy, invocations, ret>>

\* base-agent.ts 83-88: the k-th call's engine raises, the catch block
OverlapCatch(k, error) ==
    /\ k \in 1..Len(loops)
    /\ loops[k].pc = "loop"
    /\ loops' = [loops EXCEPT ![k].pc = "done", ![k].result = CatchResult(error)]
    /\ UNCHANGED <<adhoc, strategy, invocations, ret>>

\* the calls have all returned and their results are taken
OverlapOver ==
    /\ loops # <<>>
    /\ \A k \in 1..Len(loops) : loops[k].pc = "done"
    /\ loops' = <<>>
    /\ invocations' = <<>>
    /\ ret' = [ret EXCEPT !.terminal = NoMessage]
    /\ UNCHANGED <<adhoc, strategy>>

----------------------------------------------------------------------------
(* The strategy calls *)

\* a stage or agent specification; transform is used by runPipeline only
AgentSpec(name, transform) == [name |-> name, transform |-> transform]

NoStrategy ==
    [op |-> "none", pc |-> "idle", specs |-> <<>>, input |-> <<>>, i |-> 0,
     results |-> <<>>, currentInput |-> <<>>, finalResult |-> NoValue,
     stageResults |-> <<>>, parResults |-> <<>>, options |-> <<>>,
     winner |-> Undefined, votes |-> <<>>]

\* no strategy call is in flight and none has left its result behind
StrategyIdle == strategy.pc = "idle"

\* the caller has taken the outcome of the call: the call's locals (its
\* agents, their runs, its results) are gone
StrategyOutcomeTaken ==
    /\ strategy.pc \in {"done", "threw"}
    /\ strategy' = NoStrategy
    /\ adhoc' = <<>>
    /\ loops' = <<>>
    /\ invocations' = <<>>

\* a bug ChainInput could have: the result text is passed on without the
\* wrapper text
ChainInputBare(result) == result.result

\* orchestrator.ts 128: the input of the next agent of a sequential chain
ChainInput(result) ==
    <<"Previous agent output:\n">> \o result.result
        \o <<"\n\nPlease continue with your task.">>

\* orchestrator.ts 111-120: runSequentialChain up to its first await
RunSequentialChain(specs, initialInput) ==
    /\ StrategyIdle
    /\ LET call == [NoStrategy EXCEPT !.op = "chain", !.specs = specs,
                                      !.input = initialInput,
                                      !.currentInput = initialInput]
       IN IF specs = <<>>
          THEN /\ strategy' = [call EXCEPT !.pc = "done"]
               /\ adhoc' = <<>> /\ loops' = <<>> /\ invocations' = <<>>
          ELSE /\ strategy' = [call EXCEPT !.pc = "await", !.i = 1]
               /\ \E q \in QueryOutcomes :
                    /\ adhoc' = <<CreateAgent(specs[1].name)>>
                    /\ loops' = <<LoopAfterQuery(q)>>
                    /\ invocations' =
                         <<QueryCall(specs[1].name, initialInput, Undefined)>>

\* a bug ChainResume could have: the chain does not stop at a failed stage
ChainResumeNoBreak ==
    /\ strategy.op = "chain" /\ strategy.pc = "await"
    /\ loops[strategy.i].pc = "done"
    /\ LET result == loops[strategy.i].result
           pushed == [strategy EXCEPT !.results = Append(@, result)]
       IN IF strategy.i = Len(strategy.specs)
          THEN /\ strategy' = [pushed EXCEPT !.pc = "done"]
               /\ UNCHANGED <<adhoc, loops, invocations>>
          ELSE /\ strategy' = [pushed EXCEPT !.currentInput = ChainInput(result),
                                             !.i = @ + 1]
               /\ \E q \in QueryOutcomes :
                    ConstructAndRun(strategy.specs[strategy.i + 1].name,
                                    ChainInput(result), q)

\* a bug ChainResume could have: the failure is tested before the result is
\* pushed, and a failed stage's result is left out of the list
ChainResumeDropsFailure ==
    /\ strategy.op = "chain" /\ strategy.pc = "await"
    /\ loops[strategy.i].pc = "done"
    /\ LET result == loops[strategy.i].result
           pushed == [strategy EXCEPT !.results = Append(@, result)]
       IN IF ~result.success
          THEN /\ strategy' = [strategy EXCEPT !.pc = "done"]
               /\ UNCHANGED <<adhoc, loops, invocations>>
          ELSE IF strategy.i = Len(strategy.specs)
          THEN /\ strategy' = [pushed EXCEPT !.pc = "done"]
               /\ UNCHANGED <<adhoc, loops, invocations>>
          ELSE /\ strategy' = [pushed EXCEPT !.currentInput = ChainInput(result),
                                             !.i = @ + 1]
               /\ \E q \in QueryOutcomes :
                    ConstructAndRun(strategy.specs[strategy.i + 1].name,
                                    ChainInput(result), q)

\* orchestrator.ts 118-131: the chain resumes with the i-th stage's result
ChainResume ==
    /\ strategy.op = "chain" /\ strategy.pc = "await"
    /\ loops[strategy.i].pc = "done"
    /\ LET result == loops[strategy.i].result
           pushed == [strategy EXCEPT !.results = Append(@, result)]
       IN IF ~result.success \/ strategy.i = Len(strategy.specs)
          THEN /\ strategy' = [pushed EXCEPT !.pc = "done"]
               /\ UNCHANGED <<adhoc, loops, invocations>>
          ELSE /\ strategy' = [pushed EXCEPT !.currentInput = ChainInput(result),
                                             !.i = @ + 1]
               /\ \E q \in QueryOutcomes :
                    ConstructAndRun(strategy.specs[strategy.i + 1].name,
                                    ChainInput(result), q)

\* the transform of a pipeline stage: none, a function on texts (here: it
\* appends a mark), or a function that raises
ApplyTransform(transform, text) ==
    IF transform = "mark" THEN text \o <<"!">> ELSE text

\* orchestrator.ts 242-244: `result.result || ""`
ResultOrEmpty(result) ==
    IF result.result = UndefinedText THEN <<>> ELSE result.result

\* a bug PipelineInput could have: the stage's transform is not applied
PipelineInputRaw(stage, result) == ResultOrEmpty(result)

\* orchestrator.ts 242-244: the input of the next stage of a pipeline
PipelineInput(stage, result) ==
    IF stage.transform # "none"
    THEN ApplyTransform(stage.transform, ResultOrEmpty(result))
    ELSE ResultOrEmpty(result)

\* orchestrator.ts 216-233: runPipeline up to its first await
RunPipeline(stages, initialInput) ==
    /\ StrategyIdle
    /\ LET call == [NoStrategy EXCEPT
                        !.op = "pipeline", !.specs = stages,
                        !.input = initialInput, !.currentInput = initialInput,
                        !.finalResult = Failure(<<"No stages executed">>)]
       IN IF stages = <<>>
          THEN /\ strategy' = [call EXCEPT !.pc = "done"]
               /\ adhoc' = <<>> /\ loops' = <<>> /\ invocations' = <<>>
          ELSE /\ strategy' = [call EXCEPT !.pc = "await", !.i = 1]
               /\ \E q \in QueryOutcomes :
                    /\ adhoc' = <<CreateAgent(stages[1].name)>>
                    /\ loops' = <<LoopAfterQuery(q)>>
                    /\ invocations' =
                         <<QueryCall(stages[1].name, initialInput, Undefined)>>

\* orchestrator.ts 231-248: the pipeline resumes with the i-th stage's result;
\* a transform that raises ends the call there, its promise rejected
PipelineResume ==
    /\ strategy.op = "pipeline" /\ strategy.pc = "await"
    /\ loops[strategy.i].pc = "done"
    /\ LET result == loops[strategy.i].result
           stage == strategy.specs[strategy.i]
           stored == [strategy EXCEPT
                        !.stageResults = MapSet(@, stage.name, result)]
       IN IF ~result.success
          THEN /\ strategy' = [stored EXCEPT !.finalResult = result, !.pc = "done"]
               /\ UNCHANGED <<adhoc, loops, invocations>>
          ELSE IF stage.transform = "raise"
          THEN /\ strategy' = [stored EXCEPT !.pc = "threw"]
               /\ UNCHANGED <<adhoc, loops, invocations>>
          ELSE IF strategy.i = Len(strategy.specs)
          THEN /\ strategy' = [stored EXCEPT
                                  !.currentInput = PipelineInput(stage, result),
                                  !.finalResult = result, !.pc = "done"]
               /\ UNCHANGED <<adhoc, loops, invocations>>
          ELSE /\ strategy' = [stored EXCEPT
                                  !.currentInput = PipelineInput(stage, result),
                                  !.finalResult = result, !.i = @ + 1]
               /\ \E q \in QueryOutcomes :
                    ConstructAndRun(strategy.specs[strategy.i + 1].name,
                                    PipelineInput(stage, result), q)

\* orchestrator.ts 260-262: subAgents.map(...).join("\n")
RECURSIVE AgentList(_, _)
AgentList(subAgents, i) ==
    IF i > Len(subAgents) THEN <<>>
    ELSE (IF i > 1 THEN <<"\n">> ELSE <<>>)
         \o <<"- ", subAgents[i].name, ": ", subAgents[i].description>>
         \o AgentList(subAgents, i + 1)

\* orchestrator.ts 264-274: the supervisor's system prompt, trimmed
EnhancedPrompt(supervisorPrompt, subAgents, task) ==
    <<supervisorPrompt,
      "\n\nYou have access to the following specialized agents:\n">>
    \o AgentList(subAgents, 1)
    \o <<"\n\nWhen you need to delegate a task, describe which agent should handle it and what they should do.\nThe system will execute the delegation and return the results.\n\nTask: ">>
    \o task

\* orchestrator.ts 254-277: runWithSupervisor up to the first await of the
\* supervisor's run; currentInput holds the system prompt the agent is made
\* with, the prompt of the run is the task
RunWithSupervisor(supervisorPrompt, subAgents, task, q) ==
    /\ StrategyIdle
    /\ strategy' = [NoStrategy EXCEPT
                       !.op = "supervisor", !.pc = "await", !.specs = subAgents,
                       !.input = task,
                       !.currentInput =
                           EnhancedPrompt(supervisorPrompt, subAgents, task)]
    /\ adhoc' = <<CreateAgent("supervisor")>>
    /\ loops' = <<LoopAfterQuery(q)>>
    /\ invocations' = <<QueryCall("supervisor", task,
                                  CreateAgent("supervisor").sessionId)>>

\* a bug SupervisorReturn could have: after a successful answer the first
\* delegate of the list is made and run on the answer
SupervisorDispatches ==
    /\ strategy.op = "supervisor" /\ strategy.pc = "await"
    /\ loops[Len(loops)].pc = "done"
    /\ LET result == loops[Len(loops)].result IN
       IF result.success /\ Len(loops) = 1 /\ strategy.specs # <<>>
       THEN /\ UNCHANGED strategy
            /\ \E q \in ParQueryOutcomes :
                  ConstructAndRun(strategy.specs[1].name, result.result, q)
       ELSE /\ strategy' = [strategy EXCEPT !.finalResult = result, !.pc = "done"]
            /\ UNCHANGED <<adhoc, loops, invocations>>

\* orchestrator.ts 277: `return supervisor.run(task)`, the run has returned
SupervisorReturn ==
    /\ strategy.op = "supervisor" /\ strategy.pc = "await"
    /\ loops[1].pc = "done"
    /\ strategy' = [strategy EXCEPT !.finalResult = loops[1].result, !.pc = "done"]
    /\ UNCHANGED <<adhoc, loops, invocations>>

----------------------------------------------------------------------------
(* The Ralph loop: .ralph/scripts/run_loop.sh run for one prompt.  The
   process may be killed at any point and started again; the state file and
   specs/implementation.mmd outlive it. *)

\* run_loop.sh 11
MAX_ITERATIONS == 10

\* no state file
NoStateFile == UndefinedNum

\* the script has not been run: no process, no state file, the plan not
\* marked complete.  Of a process that has ended, exit tells how and
\* ITERATION keeps the value its counter had.
RalphNotStarted ==
    [pc |-> "stopped", exit |-> "none", ITERATION |-> 0,
     stateFile |-> NoStateFile, complete |-> FALSE]

RalphRunning == ralph.pc # "stopped"

\* run_loop.sh 6-51: the script is started; without its prompt file it
\* exits 1, with it it comes to the loop with ITERATION=0
RalphStart(promptFound) ==
    /\ ~RalphRunning
    /\ ralph' = IF promptFound
                THEN [ralph EXCEPT !.pc = "while", !.exit = "none", !.ITERATION = 0]
                ELSE [ralph EXCEPT !.exit = "no prompt"]

\* run_loop.sh 53-55: the loop condition holds, ITERATION is incremented
RalphIterate ==
    /\ ralph.pc = "while"
    /\ ralph.ITERATION < MAX_ITERATIONS
    /\ ralph' = [ralph EXCEPT !.ITERATION = @ + 1, !.pc = "claude"]

\* run_loop.sh 53, 84-87: the loop condition fails, the script ends
RalphMaxReached ==
    /\ ralph.pc = "while"
    /\ ~(ralph.ITERATION < MAX_ITERATIONS)
    /\ ralph' = [ralph EXCEPT !.pc = "stopped", !.exit = "max iterations"]

\* run_loop.sh 60-66: claude runs on the prompt; it may mark the plan
\* complete or take the mark away, and it succeeds or fails (exit 1)
RalphClaude(ok, complete) ==
    /\ ralph.pc = "claude"
    /\ ralph' = IF ok
                THEN [ralph EXCEPT !.pc = "grep", !.complete = complete]
                ELSE [ralph EXCEPT !.pc = "stopped", !.exit = "failed",
                                   !.complete = complete]

\* run_loop.sh 71-81: the completion signal is looked for; found, ITERATION
\* is written to the state file and the script exits 0; else the loop goes on
RalphCheck ==
    /\ ralph.pc = "grep"
    /\ ralph' = IF ralph.complete
                THEN [ralph EXCEPT !.stateFile = ralph.ITERATION,
                                   !.pc = "stopped", !.exit = "complete"]
                ELSE [ralph EXCEPT !.pc = "while"]

\* the process is killed (a signal, the terminal closed) wherever it is
RalphInterrupt ==
    /\ RalphRunning
    /\ ralph' = [ralph EXCEPT !.pc = "stopped", !.exit = "interrupted"]

----------------------------------------------------------------------------
(* runParallelAgents and runConsensusAgents *)

\* a bug FanOut could have: each run is awaited before the next agent is
\* made, so that only the first agent is started by the call
FanOutAwaitsEach(specs, input, qs) ==
    LET n == IF specs = <<>> THEN 0 ELSE 1 IN
    /\ adhoc' = [j \in 1..n |-> CreateAgent(specs[j].name)]
    /\ loops' = [j \in 1..n |-> LoopAfterQuery(qs[j])]
    /\ invocations' = [j \in 1..n |->
                          QueryCall(specs[j].name, input,
                                    CreateAgent(specs[j].name).sessionId)]

\* orchestrator.ts 144-148: the agents.map callback up to its first await,
\* for every agent in order: createAgent, then agent.run(input)
FanOut(specs, input, qs) ==
    /\ adhoc' = [j \in 1..Len(specs) |-> CreateAgent(specs[j].name)]
    /\ loops' = [j \in 1..Len(specs) |-> LoopAfterQuery(qs[j])]
    /\ invocations' = [j \in 1..Len(specs) |->
                          QueryCall(specs[j].name, input,
                                    CreateAgent(specs[j].name).sessionId)]

\* orchestrator.ts 138-150: runParallelAgents up to `await Promise.all`
\* (qs: what query() does for each agent)
RunParallelAgents(specs, input, qs) ==
    /\ StrategyIdle
    /\ strategy' = [NoStrategy EXCEPT !.op = "parallel", !.pc = "await",
                                      !.specs = specs, !.input = input]
    /\ FanOut(specs, input, qs)

\* the decimal numeral of a natural number, as a text
RECURSIVE Numeral(_)
Numeral(n) ==
    LET d == <<"0", "1", "2", "3", "4", "5", "6", "7", "8", "9">>[(n % 10) + 1]
    IN IF n < 10 THEN <<d>> ELSE Numeral(n \div 10) \o <<d>>

\* orchestrator.ts 171: options.map((opt, i) => `${i + 1}. ${opt}`).join("\n")
RECURSIVE OptionLines(_, _)
OptionLines(options, i) ==
    IF i > Len(options) THEN <<>>
    ELSE (IF i > 1 THEN <<"\n">> ELSE <<>>)
         \o Numeral(i) \o <<". ", options[i]>> \o OptionLines(options, i + 1)

\* orchestrator.ts 167-174: the voting prompt, trimmed
VotingPrompt(question, options) ==
    <<question,
      "\n\nPlease choose ONE of the following options and explain your reasoning:\n">>
    \o OptionLines(options, 1)
    \o <<"\n\nRespond with your choice number first, then your reasoning.">>

\* orchestrator.ts 162-176: runConsensusAgents up to `await runParallelAgents`
RunConsensusAgents(specs, question, options, qs) ==
    /\ StrategyIdle
    /\ strategy' = [NoStrategy EXCEPT
                       !.op = "consensus", !.pc = "await", !.specs = specs,
                       !.input = VotingPrompt(question, options),
                       !.options = options]
    /\ FanOut(specs, VotingPrompt(question, options), qs)

\* a bug CollectResults could have: a name already in the map keeps the
\* result it has
RECURSIVE CollectResultsKeepsFirst(_, _, _)
CollectResultsKeepsFirst(specs, runs, j) ==
    IF j = 0 THEN <<>>
    ELSE LET earlier == CollectResultsKeepsFirst(specs, runs, j - 1)
         IN IF MapHas(earlier, specs[j].name) THEN earlier
            ELSE Append(earlier, [key |-> specs[j].name, value |-> runs[j].result])

\* orchestrator.ts 150-153: outcomes.forEach(({name, result}) => results.set(...))
RECURSIVE CollectResults(_, _, _)
CollectResults(specs, runs, j) ==
    IF j = 0 THEN <<>>
    ELSE MapSet(CollectResults(specs, runs, j - 1), specs[j].name, runs[j].result)

Digits == {"0", "1", "2", "3", "4", "5", "6", "7", "8", "9"}

DigitValue(c) ==
    CASE c = "0" -> 0 [] c = "1" -> 1 [] c = "2" -> 2 [] c = "3" -> 3
      [] c = "4" -> 4 [] c = "5" -> 5 [] c = "6" -> 6 [] c = "7" -> 7
      [] c = "8" -> 8 [] c = "9" -> 9

\* orchestrator.ts 183: result.result.match(/^(\d+)/): the digits the text
\* starts with (none: no match)
RECURSIVE LeadingDigits(_)
LeadingDigits(text) ==
    IF text # <<>> /\ Head(text) \in Digits
    THEN <<Head(text)>> \o LeadingDigits(Tail(text))
    ELSE <<>>

\* orchestrator.ts 185: parseInt of a run of digits
RECURSIVE ParseInt(_)
ParseInt(digits) ==
    IF digits = <<>> THEN 0
    ELSE 10 * ParseInt(SubSeq(digits, 1, Len(digits) - 1))
         + DigitValue(digits[Len(digits)])

\* orchestrator.ts 181: result.success && result.result
HasAnswer(result) ==
    result.success /\ result.result # UndefinedText /\ result.result # <<>>

\* a bug ChoiceIndex could have: the choice number taken as a 0-based index
ChoiceIndexZeroBased(result) == ParseInt(LeadingDigits(result.result))

\* orchestrator.ts 185: const choiceIndex = parseInt(match[1]) - 1
ChoiceIndex(result) == ParseInt(LeadingDigits(result.result)) - 1

\* orchestrator.ts 181-189: whether the result casts a vote
CastsVote(result, options) ==
    /\ HasAnswer(result)
    /\ LeadingDigits(result.result) # <<>>
    /\ ChoiceIndex(result) >= 0
    /\ ChoiceIndex(result) < Len(options)

\* orchestrator.ts 177-191: the votes map, filled in the order of results
RECURSIVE ParseVotes(_, _, _)
ParseVotes(results, options, j) ==
    IF j = 0 THEN <<>>
    ELSE LET votes == ParseVotes(results, options, j - 1)
         IN IF CastsVote(results[j].value, options)
            THEN MapSet(votes, results[j].key,
                        options[ChoiceIndex(results[j].value) + 1])
            ELSE votes

\* orchestrator.ts 194-197: the tallies map, filled in the order of votes
RECURSIVE CountVotes(_, _)
CountVotes(votes, j) ==
    IF j = 0 THEN <<>>
    ELSE LET voteCounts == CountVotes(votes, j - 1)
             vote == votes[j].value
         IN MapSet(voteCounts, vote,
                   (IF MapHas(voteCounts, vote) THEN MapGet(voteCounts, vote) ELSE 0)
                   + 1)

\* a bug FirstOption could have: the default winner is the last option
LastOption(options) == IF options = <<>> THEN Undefined ELSE options[Len(options)]

\* orchestrator.ts 200: options[0]
FirstOption(options) == IF options = <<>> THEN Undefined ELSE options[1]

\* a bug FindWinner could have: `count > 0` for `count > maxVotes`, so that
\* the last option voted for wins
RECURSIVE FindWinnerAnyVote(_, _, _)
FindWinnerAnyVote(voteCounts, options, j) ==
    IF j = 0 THEN [winner |-> FirstOption(options), maxVotes |-> 0]
    ELSE LET before == FindWinnerAnyVote(voteCounts, options, j - 1)
         IN IF voteCounts[j].value > 0
            THEN [winner |-> voteCounts[j].key, maxVotes |-> voteCounts[j].value]
            ELSE before

\* orchestrator.ts 200-207: the loop over voteCounts, after j entries
RECURSIVE FindWinner(_, _, _)
FindWinner(voteCounts, options, j) ==
    IF j = 0 THEN [winner |-> FirstOption(options), maxVotes |-> 0]
    ELSE LET before == FindWinner(voteCounts, options, j - 1)
         IN IF voteCounts[j].value > before.maxVotes
            THEN [winner |-> voteCounts[j].key, maxVotes |-> voteCounts[j].value]
            ELSE before

\* orchestrator.ts 176-209: what runConsensusAgents returns for a results map
Consensus(results, options) ==
    LET votes == ParseVotes(results, options, Len(results))
        voteCounts == CountVotes(votes, Len(votes))
    IN [winner |-> FindWinner(voteCounts, options, Len(voteCounts)).winner,
        votes |-> votes]

\* a bug ParJoin could have: the join resolves with the first run to return
\* (Promise.race for Promise.all)
ParJoinEarly ==
    /\ strategy.op \in {"parallel", "consensus"} /\ strategy.pc = "await"
    /\ \/ Len(loops) = 0
       \/ \E j \in 1..Len(loops) : loops[j].pc = "done"
    /\ LET results == CollectResults(strategy.specs, loops, Len(loops))
           outcome == Consensus(results, strategy.options)
       IN strategy' =
            IF strategy.op = "parallel"
            THEN [strategy EXCEPT !.pc = "done", !.parResults = results]
            ELSE [strategy EXCEPT !.pc = "done", !.parResults = results,
                                  !.winner = outcome.winner,
                                  !.votes = outcome.votes]
    /\ UNCHANGED <<adhoc, loops, invocations>>

\* orchestrator.ts 150-155, 176-209: Promise.all resolves once every run has
\* returned; runParallelAgents returns its map, and runConsensusAgents parses
\* and counts the votes
ParJoin ==
    /\ strategy.op \in {"parallel", "consensus"} /\ strategy.pc = "await"
    /\ \A j \in 1..Len(loops) : loops[j].pc = "done"
    /\ LET results == CollectResults(strategy.specs, loops, Len(loops))
           outcome == Consensus(results, strategy.options)
       IN strategy' =
            IF strategy.op = "parallel"
            THEN [strategy EXCEPT !.pc = "done", !.parResults = results]
            ELSE [strategy EXCEPT !.pc = "done", !.parResults = results,
                                  !.winner = outcome.winner,
                                  !.votes = outcome.votes]
    /\ UNCHANGED <<adhoc, loops, invocations>>

----------------------------------------------------------------------------

Init ==
    /\ strategy = NoStrategy
    /\ adhoc = <<>>
    /\ loops = <<>>
    /\ agents = <<>>
    /\ handoffHistory = <<>>
    /\ currentAgent = Null
    /\ run = Idle
    /\ ret = Outcome("none", NoArgs, "none", NoValue, <<>>, NoError, NoMessage)
    /\ invocations = <<>>
    /\ found = FALSE
    /\ received = <<>>
    /\ held = <<>>
    /\ ralph = RalphNotStarted

\* the registry, used by one caller at a time (the caller leaves the arrays
\* getHandoffHistory returns alone)
Next ==
    \/ \E name \in RegNames :
          RegisterAgent(name) /\ NoteConstructed(name) /\ UNCHANGED <<stratVars, held>>
    \/ \E name \in Names, task \in Tasks :
          Execute(name, task) /\ UNCHANGED <<stratVars, received, held>>
    \/ \E name \in Names, c \in Contexts, d \in DataValues :
          Handoff(name, c, d) /\ UNCHANGED <<stratVars, received, held>>
    \/ GetHandoffHistory /\ UNCHANGED <<stratVars, received, held>>
    \/ Reset /\ NoteReset /\ UNCHANGED <<stratVars, held>>
    \/ \E m \in RegistryMessages :
          RunMessage(m) /\ NoteReceived(m) /\ UNCHANGED <<stratVars, held>>
    \/ RunReturn /\ UNCHANGED <<stratVars, received, held>>
    \/ \E e \in Thrown : RunCatch(e) /\ UNCHANGED <<stratVars, received, held>>

Spec == Init /\ [][Next]_vars

\* the registry and a caller that changes the arrays getHandoffHistory
\* returns, one call at a time
NextCopy ==
    \/ \E name \in CopyNames :
          RegisterAgent(name) /\ NoteConstructed(name) /\ UNCHANGED <<stratVars, held>>
    \/ \E name \in CopyNames, task \in Tasks :
          Execute(name, task) /\ UNCHANGED <<stratVars, received, held>>
    \/ \E name \in CopyNames, c \in Contexts, d \in CopyData :
          Handoff(name, c, d) /\ UNCHANGED <<stratVars, received, held>>
    \/ GetHandoffHistoryKept /\ UNCHANGED <<stratVars, received>>
    \/ ResetKept /\ NoteReset /\ UNCHANGED stratVars
    \/ \E m \in CopyMessages :
          RunMessage(m) /\ NoteReceived(m) /\ UNCHANGED <<stratVars, held>>
    \/ RunReturn /\ UNCHANGED <<stratVars, received, held>>
    \/ \E record \in CallerRecords : CallerPushes(record) /\ UNCHANGED stratVars
    \/ CallerPops /\ UNCHANGED stratVars
    \/ CallerReverses /\ UNCHANGED stratVars
    \/ \E i \in 1..MaxHistory, c \in CallerContexts :
          CallerWritesContext(i, c) /\ UNCHANGED stratVars

SpecCopy == Init /\ [][NextCopy]_vars

\* what the calls on one agent leave alone
restVars == <<agents, handoffHistory, currentAgent, run, found, received, held,
             ralph>>

\* base-agent.ts 18-27, 234-244: one agent, just constructed
InitAgent ==
    /\ strategy = NoStrategy
    /\ adhoc = <<CreateAgent(SoloName)>>
    /\ loops = <<>>
    /\ agents = <<>>
    /\ handoffHistory = <<>>
    /\ currentAgent = Null
    /\ run = Idle
    /\ ret = Outcome("none", NoArgs, "none", NoValue, <<>>, NoError, NoMessage)
    /\ invocations = <<>>
    /\ found = FALSE
    /\ received = <<>>
    /\ held = <<>>
    /\ ralph = RalphNotStarted

\* one agent, used by one caller, one call at a time
NextAgent ==
    \/ \E p \in Tasks, q \in QueryOutcomes : AgentRun(p, q) /\ UNCHANGED restVars
    \/ \E m \in AgentMessages : AgentRunMessage(m) /\ UNCHANGED restVars
    \/ AgentRunReturn /\ UNCHANGED restVars
    \/ \E e \in Thrown : AgentRunCatch(e) /\ UNCHANGED restVars
    \/ GetSessionId /\ UNCHANGED restVars
    \/ \E sid \in SessionIds : SetSessionId(sid) /\ UNCHANGED restVars
    \/ AgentReset /\ UNCHANGED restVars
    \/ \E p \in Tasks : AgentStream(p) /\ UNCHANGED restVars
    \/ \E q \in QueryOutcomes : StreamFirstNext(q) /\ UNCHANGED restVars
    \/ \E m \in AgentMessages : StreamYield(m) /\ UNCHANGED restVars
    \/ StreamResume /\ UNCHANGED restVars
    \/ StreamStop /\ UNCHANGED restVars
    \/ StreamReturn /\ UNCHANGED restVars
    \/ \E e \in Thrown : StreamCatch(e) /\ UNCHANGED restVars

SpecAgent == InitAgent /\ [][NextAgent]_vars

\* the sequential strategies, one call at a time
NextSeq ==
    \/ \E specs \in ChainSpecs, input \in Inputs :
          RunSequentialChain(specs, input) /\ UNCHANGED regVars
    \/ ChainResume /\ UNCHANGED regVars
    \/ \E stages \in PipelineSpecs, input \in Inputs :
          RunPipeline(stages, input) /\ UNCHANGED regVars
    \/ PipelineResume /\ UNCHANGED regVars
    \/ StrategyOutcomeTaken /\ UNCHANGED regVars
    \/ \E i \in 1..MaxStages, m \in StageMessages :
          AdhocMessage(i, m) /\ UNCHANGED regVars
    \/ \E i \in 1..MaxStages : AdhocReturn(i) /\ UNCHANGED regVars
    \/ \E i \in 1..MaxStages, e \in Thrown : AdhocCatch(i, e) /\ UNCHANGED regVars

SpecSeq == Init /\ [][NextSeq]_vars

\* the concurrent strategies, one call at a time
NextPar ==
    \/ \E specs \in ParSpecs, input \in Inputs :
          \E qs \in [1..Len(specs) -> ParQueryOutcomes] :
             RunParallelAgents(specs, input, qs) /\ UNCHANGED regVars
    \/ \E specs \in ParSpecs, q \in Questions, options \in ParOptionLists :
          \E qs \in [1..Len(specs) -> ParQueryOutcomes] :
             RunConsensusAgents(specs, q, options, qs) /\ UNCHANGED regVars
    \/ \E i \in 1..MaxAgents, m \in ParMessages :
          AdhocMessage(i, m) /\ UNCHANGED regVars
    \/ \E i \in 1..MaxAgents : AdhocReturn(i) /\ UNCHANGED regVars
    \/ \E i \in 1..MaxAgents, e \in ParThrown :
          AdhocCatch(i, e) /\ UNCHANGED regVars
    \/ ParJoin /\ UNCHANGED regVars
    \/ StrategyOutcomeTaken /\ UNCHANGED regVars

SpecPar == Init /\ [][NextPar]_vars

\* The pure part of runConsensusAgents (parsing, counting, choosing), on
\* every outcome of the fan-out: a consensus call at the moment the last of
\* its runs has returned, each run having ended on one of VoteMessages.
InitVote ==
    /\ agents = <<>>
    /\ handoffHistory = <<>>
    /\ currentAgent = Null
    /\ run = Idle
    /\ ret = Outcome("none", NoArgs, "none", NoValue, <<>>, NoError, NoMessage)
    /\ found = FALSE
    /\ received = <<>>
    /\ held = <<>>
    /\ ralph = RalphNotStarted
    /\ \E specs \in ParSpecs, q \in Questions, options \in OptionLists :
         \E ms \in [1..Len(specs) -> VoteMessages] :
            /\ strategy = [NoStrategy EXCEPT
                              !.op = "consensus", !.pc = "await", !.specs = specs,
                              !.input = VotingPrompt(q, options),
                              !.options = options]
            /\ adhoc = [j \in 1..Len(specs) |->
                          [name |-> specs[j].name, sessionId |-> ms[j].session_id]]
            /\ loops = [j \in 1..Len(specs) |->
                          [pc |-> "done", result |-> MapResult(ms[j]),
                           terminal |-> ms[j]]]
            /\ invocations = [j \in 1..Len(specs) |->
                                QueryCall(specs[j].name,
                                          VotingPrompt(q, options), Undefined)]

NextVote == ParJoin /\ UNCHANGED regVars

SpecVote == InitVote /\ [][NextVote]_vars

\* the runs one strategy call may have in flight
MaxRuns == IF MaxStages > MaxAgents THEN MaxStages ELSE MaxAgents

\* the five strategies, one call at a time
NextStrategies ==
    \/ \E specs \in StrategyStages, input \in Inputs :
          RunSequentialChain(specs, input) /\ UNCHANGED regVars
    \/ ChainResume /\ UNCHANGED regVars
    \/ \E stages \in StrategyStages, input \in Inputs :
          RunPipeline(stages, input) /\ UNCHANGED regVars
    \/ PipelineResume /\ UNCHANGED regVars
    \/ \E specs \in ParSpecs, input \in Inputs :
          \E qs \in [1..Len(specs) -> ParQueryOutcomes] :
             RunParallelAgents(specs, input, qs) /\ UNCHANGED regVars
    \/ \E specs \in ParSpecs, q \in Questions, options \in ParOptionLists :
          \E qs \in [1..Len(specs) -> ParQueryOutcomes] :
             RunConsensusAgents(specs, q, options, qs) /\ UNCHANGED regVars
    \/ ParJoin /\ UNCHANGED regVars
    \/ \E p \in SupervisorPrompts, subAgents \in DelegateLists,
          task \in Inputs, q \in ParQueryOutcomes :
          RunWithSupervisor(p, subAgents, task, q) /\ UNCHANGED regVars
    \/ SupervisorReturn /\ UNCHANGED regVars
    \/ StrategyOutcomeTaken /\ UNCHANGED regVars
    \/ \E i \in 1..MaxRuns, m \in StrategyMessages :
          AdhocMessage(i, m) /\ UNCHANGED regVars
    \/ \E i \in 1..MaxRuns : AdhocReturn(i) /\ UNCHANGED regVars
    \/ \E i \in 1..MaxRuns, e \in ParThrown :
          AdhocCatch(i, e) /\ UNCHANGED regVars

SpecStrategies == Init /\ [][NextStrategies]_vars

\* one agent, its run calls made without waiting for one another
NextOverlap ==
    \/ \E p \in Tasks, q \in QueryOutcomes : OverlapRun(p, q) /\ UNCHANGED restVars
    \/ \E k \in 1..MaxCalls, m \in AgentMessages :
          OverlapMessage(k, m) /\ UNCHANGED restVars
    \/ \E k \in 1..MaxCalls : OverlapReturn(k) /\ UNCHANGED restVars
    \/ \E k \in 1..MaxCalls, e \in Thrown : OverlapCatch(k, e) /\ UNCHANGED restVars
    \/ OverlapOver /\ UNCHANGED restVars

SpecOverlap == InitAgent /\ [][NextOverlap]_vars

\* what the Ralph loop leaves alone
notRalphVars == <<agents, handoffHistory, currentAgent, run, ret, invocations,
                 found, strategy, adhoc, loops, received, held>>

\* the Ralph loop of one prompt, started again whenever it has ended
NextRalph ==
    \/ \E promptFound \in BOOLEAN : RalphStart(promptFound) /\ UNCHANGED notRalphVars
    \/ RalphIterate /\ UNCHANGED notRalphVars
    \/ RalphMaxReached /\ UNCHANGED notRalphVars
    \/ \E ok \in BOOLEAN, complete \in BOOLEAN :
          RalphClaude(ok, complete) /\ UNCHANGED notRalphVars
    \/ RalphCheck /\ UNCHANGED notRalphVars
    \/ RalphInterrupt /\ UNCHANGED notRalphVars

SpecRalph == Init /\ [][NextRalph]_vars

----------------------------------------------------------------------------
(* Properties of the registry and of BaseAgent.run, checked under Spec *)

\* the step is a call of handoff made on the idle registry
HandoffCalled == run.pc = "idle" /\ ret'.op = "handoff"

\* the last call was an execute or handoff whose run returned a result
RunReturned ==
    /\ ret.op \in {"execute", "handoff"}
    /\ ret.outcome = "returned"
    /\ Len(invocations) = 1

\* C1: whenever a run returns success = true, the agent's session reference
\* right after the call is the session_id of the last result event the run
\* received.
RunSuccessSetsSession ==
    (RunReturned /\ ret.value.success) =>
        /\ ret.terminal.type = "result"
        /\ agents[ret.args.name].sessionId = ret.terminal.session_id

\* C1 witness: a successful run on an agent that was resumed from another
\* session has moved the session reference to the new identifier.
RunSuccessSetsSessionWitness ==
    /\ RunReturned /\ ret.value.success
    /\ invocations[1].resume \in SessionIds
    /\ invocations[1].resume # ret.terminal.session_id
    /\ agents[ret.args.name].sessionId = ret.terminal.session_id

\* C2: no public call ends by raising: every call returns a result.
NoExceptionEscapes == ret.outcome # "threw"

\* C9: a handoff made while no execute or handoff has found its agent since
\* construction or the last reset returns the failure "No current agent to
\* hand off from", appends no record, leaves the cursor unset and calls the
\* engine not at all.
HandoffWithoutCursorFails ==
    [][(HandoffCalled /\ ~found) =>
          /\ ret' = Returned("handoff", ret'.args,
                             Failure(<<"No current agent to hand off from">>),
                             NoMessage)
          /\ handoffHistory' = handoffHistory
          /\ currentAgent = Null /\ currentAgent' = Null
          /\ invocations' = <<>>
          /\ run'.pc = "idle"]_vars

\* C9 witness: the handoff was refused for lack of a cursor although its
\* target is registered.
HandoffWithoutCursorWitness ==
    /\ ret.op = "handoff" /\ ret.outcome = "returned"
    /\ ~found /\ currentAgent = Null
    /\ Registered(ret.args.name)
    /\ ret.value.error = <<"No current agent to hand off from">>
    /\ handoffHistory = <<>>

\* what a handoff to an unregistered name leaves alone
HandoffLeftRegistryAlone ==
    /\ agents' = agents
    /\ handoffHistory' = handoffHistory
    /\ currentAgent' = currentAgent
    /\ invocations' = <<>>
    /\ run'.pc = "idle"

\* C10 as stated: every handoff to an unregistered name returns the failure
\* "Target agent not found" and changes nothing.
HandoffUnregisteredIsTargetNotFound ==
    [][(HandoffCalled /\ ~Registered(ret'.args.name)) =>
          /\ ret' = Returned("handoff", ret'.args,
                             Failure(<<"Target agent not found: ", ret'.args.name>>),
                             NoMessage)
          /\ HandoffLeftRegistryAlone]_vars

\* C10 amended: a handoff to an unregistered name changes nothing and calls
\* the engine not at all; it returns the failure "Target agent not found:
\* <name>" when the cursor holds a non-empty name, and the failure "No
\* current agent to hand off from" otherwise.
HandoffUnregisteredFails ==
    [][(HandoffCalled /\ ~Registered(ret'.args.name)) =>
          /\ ret' = Returned("handoff", ret'.args,
                             Failure(IF Truthy(currentAgent)
                                     THEN <<"Target agent not found: ",
                                            ret'.args.name>>
                                     ELSE <<"No current agent to hand off from">>),
                             NoMessage)
          /\ HandoffLeftRegistryAlone]_vars

\* C10 witness: with a cursor, sessions and a recorded handoff in place, a
\* handoff to an unregistered name was refused as "Target agent not found".
HandoffUnregisteredWitness ==
    /\ ret.op = "handoff" /\ ret.outcome = "returned"
    /\ ~Registered(ret.args.name)
    /\ Truthy(currentAgent)
    /\ ret.value.error = <<"Target agent not found: ", ret.args.name>>
    /\ handoffHistory # <<>>
    /\ agents[currentAgent].sessionId \in SessionIds

\* the step is a call of execute made on the idle registry
ExecuteCalled == run.pc = "idle" /\ ret'.op = "execute"

\* C11: execute with an unregistered name returns the failure "Agent not
\* found: <name>" and changes neither the cursor, the history, the agent
\* table nor any session reference and calls the engine not at all; with a
\* registered name it sets the cursor to that name and calls the engine once,
\* for that agent's run of the task, the cursor being set when the run starts.
ExecuteLooksUpThenRuns ==
    [][ExecuteCalled =>
          IF ~Registered(ret'.args.name)
          THEN /\ ret' = Returned("execute", ret'.args,
                                  Failure(<<"Agent not found: ", ret'.args.name>>),
                                  NoMessage)
               /\ agents' = agents
               /\ handoffHistory' = handoffHistory
               /\ currentAgent' = currentAgent
               /\ invocations' = <<>>
               /\ run'.pc = "idle"
          ELSE /\ currentAgent' = ret'.args.name
               /\ invocations' = <<QueryCall(ret'.args.name, <<ret'.args.text>>,
                                             agents[ret'.args.name].sessionId)>>
               /\ run'.pc = "loop" => run'.agent = ret'.args.name
               /\ agents' = agents
               /\ handoffHistory' = handoffHistory]_vars

\* C11 witness: with a cursor, a session and a recorded handoff in place, an
\* execute of an unregistered name was refused as "Agent not found".
ExecuteLooksUpThenRunsWitness ==
    /\ ret.op = "execute" /\ ret.outcome = "returned"
    /\ ~Registered(ret.args.name)
    /\ ret.value.error = <<"Agent not found: ", ret.args.name>>
    /\ Truthy(currentAgent)
    /\ handoffHistory # <<>>
    /\ agents[currentAgent].sessionId \in SessionIds
    /\ invocations = <<>>

\* the step is a call of handoff that passes both precondition checks
HandoffAccepted ==
    HandoffCalled /\ Truthy(currentAgent) /\ Registered(ret'.args.name)

\* C12: a handoff that passes both checks appends exactly one record, from
\* the cursor before the call to the destination, with the call's context
\* and data, sets the cursor to the destination and runs the destination
\* agent; the record and the cursor stay as they are while that run goes on
\* and when it returns, successful or not.
HandoffRecordsThenMoves ==
    [][/\ HandoffAccepted =>
             /\ handoffHistory' =
                    Append(handoffHistory,
                           [fromAgent |-> currentAgent, toAgent |-> ret'.args.name,
                            context |-> ret'.args.text, data |-> ret'.args.data])
             /\ currentAgent' = ret'.args.name
             /\ Len(invocations') = 1
             /\ invocations'[1].agent = ret'.args.name
       /\ run.pc = "loop" =>
             /\ handoffHistory' = handoffHistory
             /\ currentAgent' = currentAgent]_vars

\* C14: nothing the caller does with the array getHandoffHistory returned
\* (pushing, popping, reversing, assigning to a field of a record) changes
\* the history a later getHandoffHistory returns.
ReturnedHistoryIsDetached ==
    [][(held' # held /\ ret' = ret) => handoffHistory' = handoffHistory]_vars

\* the step is a call of reset
ResetCalled == run.pc = "idle" /\ ret'.op = "reset"

\* C13: every step that is not a reset (registerAgent, execute, handoff,
\* getHandoffHistory, the steps of a run) leaves the records of the history
\* present, in their order and with their contents; it may add records at
\* the end.
HistoryAppendOnly ==
    [][~ResetCalled =>
          /\ Len(handoffHistory') >= Len(handoffHistory)
          /\ SubSeq(handoffHistory', 1, Len(handoffHistory)) = handoffHistory]_vars

\* C13 witness: two handoffs were recorded, and an execute that followed
\* them has run and returned with both records in place, in order.
HistoryAppendOnlyWitness ==
    /\ Len(handoffHistory) = 2
    /\ handoffHistory[1] # handoffHistory[2]
    /\ ret.op = "execute" /\ ret.outcome = "returned"
    /\ Len(invocations) = 1
\* the step is an execute or handoff that has started its agent's run
RunStarted ==
    /\ run.pc = "idle"
    /\ ret'.op \in {"execute", "handoff"}
    /\ Len(invocations') = 1

\* C15: reset clears the session reference of every registered agent,
\* empties the history and unsets the cursor, the registered names staying
\* as they are; the first execute or handoff after it that finds its agent,
\* and every run of an agent that has consumed no result event since,
\* passes no resume token, and a handoff right after it fails for lack of a
\* current agent.
ResetClearsSessionsHistoryCursor ==
    [][/\ ResetCalled =>
             /\ DOMAIN agents' = DOMAIN agents
             /\ \A n \in DOMAIN agents : agents'[n].sessionId = Undefined
             /\ handoffHistory' = <<>>
             /\ currentAgent' = Null
             /\ invocations' = <<>>
       /\ (RunStarted /\ (~found \/ received[ret'.args.name] = Undefined)) =>
             invocations'[1].resume = Undefined
       /\ (HandoffCalled /\ ~found) =>
             /\ ~ret'.value.success
             /\ ret'.value.error = <<"No current agent to hand off from">>
             /\ invocations' = <<>>]_vars

\* C15 witness: after a reset two agents are registered, none has a session,
\* no record is left and the cursor is unset.
ResetClearsSessionsHistoryCursorWitness ==
    /\ ret.op = "reset"
    /\ Cardinality(DOMAIN agents) = 2
    /\ \A n \in DOMAIN agents : agents[n].sessionId = Undefined
    /\ handoffHistory = <<>>
    /\ currentAgent = Null
    /\ ~found

\* the step is a call of registerAgent
RegisterCalled == run.pc = "idle" /\ ret'.op = "registerAgent"

\* C16: registerAgent leaves under its name an agent whose session
\* reference is unset, whatever agent was under that name, and leaves the
\* other agents as they were; a run of an agent that has consumed no result
\* event since it was registered passes no resume token.
RegisterReplacesWithFreshAgent ==
    [][/\ RegisterCalled =>
             /\ DOMAIN agents' = DOMAIN agents \cup {ret'.args.name}
             /\ agents'[ret'.args.name].sessionId = Undefined
             /\ \A n \in DOMAIN agents \ {ret'.args.name} : agents'[n] = agents[n]
       /\ (RunStarted /\ received[ret'.args.name] = Undefined) =>
             invocations'[1].resume = Undefined]_vars

\* C16 witness: the agent a handoff was made to, and which is the current
\* agent, has been registered again: its session reference is unset, while
\* the other agent has kept its session.
RegisterReplacesWithFreshAgentWitness ==
    /\ ret.op = "registerAgent"
    /\ handoffHistory # <<>>
    /\ handoffHistory[1].toAgent = ret.args.name
    /\ currentAgent = ret.args.name
    /\ agents[ret.args.name].sessionId = Undefined
    /\ \E n \in DOMAIN agents : agents[n].sessionId \in SessionIds

HandoffPromptEmbedsSuppliedData ==
    (ret.op = "handoff" /\ invocations # <<>>) =>
        invocations[1].prompt =
            <<"[HANDOFF FROM ", handoffHistory[Len(handoffHistory)].fromAgent,
              "]\nContext: ", ret.args.text, "\n">>
            \o (IF ret.args.data # DataAbsent
                THEN <<"Data: ", JSONStringify(ret.args.data)>> ELSE <<"">>)
            \o <<"\n\nPlease continue with this task based on the context provided.">>

\* C35: whenever the cursor is set, it names a registered agent.
CursorNamesRegisteredAgent ==
    currentAgent # Null => Registered(currentAgent)

\* C35 witness: a handoff has moved the cursor from the agent "a" to the
\* agent registered under the empty name.
CursorNamesRegisteredAgentWitness ==
    /\ currentAgent = ""
    /\ Registered("")
    /\ Len(handoffHistory) = 1
    /\ handoffHistory[1].fromAgent = "a"
    /\ handoffHistory[1].toAgent = ""

\* C36 as stated: a handoff call either appends its record and moves the
\* cursor to the destination, or leaves both the history and the cursor as
\* they were.
HandoffAllOrNothing ==
    [][HandoffCalled =>
          \/ /\ handoffHistory' =
                    Append(handoffHistory,
                           [fromAgent |-> currentAgent, toAgent |-> ret'.args.name,
                            context |-> ret'.args.text, data |-> ret'.args.data])
             /\ currentAgent' = ret'.args.name
          \/ /\ handoffHistory' = handoffHistory
             /\ currentAgent' = currentAgent]_vars

\* C37 as stated: once an execute has found its agent, whatever the name,
\* a handoff to a registered destination is not refused for lack of a
\* current agent.
HandoffAfterExecuteHasCursor ==
    [][(HandoffCalled /\ found /\ Registered(ret'.args.name)) =>
          ret'.value # Failure(<<"No current agent to hand off from">>)]_vars

----------------------------------------------------------------------------
(* Properties of the sequential strategies, checked under SpecSeq *)

\* the chain call has returned its list of results
ChainReturned == strategy.op = "chain" /\ strategy.pc = "done"

\* C3: a chain never constructs or invokes an agent for a stage that follows
\* a stage whose result is a failure, and when it returns with stage k its
\* first failed stage, the list has exactly k entries, the j-th being the
\* result of the j-th stage's run, and exactly k agents were constructed and
\* k engine calls made, for stages 1..k in order.
ChainStopsAtFirstFailure ==
    strategy.op = "chain" =>
        /\ Len(adhoc) = Len(loops) /\ Len(invocations) = Len(loops)
        /\ \A j \in 1..Len(loops) :
              /\ adhoc[j].name = strategy.specs[j].name
              /\ invocations[j].agent = strategy.specs[j].name
              /\ j < Len(loops) => loops[j].pc = "done" /\ loops[j].result.success
        /\ ChainReturned =>
              \A k \in 1..Len(strategy.results) :
                  ~strategy.results[k].success =>
                      /\ Len(strategy.results) = k
                      /\ Len(adhoc) = k /\ Len(invocations) = k
                      /\ \A j \in 1..k : strategy.results[j] = loops[j].result

\* C3 witness: a chain of three stages returned two results, the second one
\* a failure, with only two agents constructed and invoked.
ChainStopsAtFirstFailureWitness ==
    /\ ChainReturned
    /\ Len(strategy.specs) = 3
    /\ Len(strategy.results) = 2
    /\ strategy.results[1].success /\ ~strategy.results[2].success
    /\ Len(adhoc) = 2 /\ Len(invocations) = 2

\* C25 as stated: the list a chain returns is shorter than its stage list
\* if and only if some stage failed.
ChainShorterIffSomeStageFailed ==
    ChainReturned =>
        (Len(strategy.results) < Len(strategy.specs)
            <=> \E j \in 1..Len(loops) : ~loops[j].result.success)

\* C25 amended: the returned list is shorter than the stage list if and
\* only if a stage before the last one failed; the failed stage's result is
\* the last entry of the list, so a chain whose last stage fails returns a
\* list as long as its stage list.
ChainShorterIffEarlierStageFailed ==
    ChainReturned =>
        /\ Len(strategy.results) < Len(strategy.specs)
              <=> \E k \in 1..Len(strategy.results) :
                     /\ ~strategy.results[k].success
                     /\ k < Len(strategy.specs)
        /\ \A k \in 1..Len(strategy.results) :
              /\ strategy.results[k] = loops[k].result
              /\ ~strategy.results[k].success => k = Len(strategy.results)

\* C25 witness: a chain of two stages whose second stage failed returned two
\* results.
ChainShorterIffEarlierStageFailedWitness ==
    /\ ChainReturned
    /\ Len(strategy.specs) = 2
    /\ Len(strategy.results) = 2
    /\ strategy.results[1].success /\ ~strategy.results[2].success

\* C26: the first stage of a chain is invoked with the initial input, and
\* every later stage with "Previous agent output:\n", the result text of
\* the stage just before it, and "\n\nPlease continue with your task.";
\* that stage succeeded.
ChainPromptsWrapPreviousResult ==
    strategy.op = "chain" =>
        \A j \in 1..Len(invocations) :
            IF j = 1
            THEN invocations[j].prompt = strategy.input
            ELSE /\ loops[j - 1].pc = "done" /\ loops[j - 1].result.success
                 /\ invocations[j].prompt =
                        <<"Previous agent output:\n">>
                            \o loops[j - 1].result.result
                            \o <<"\n\nPlease continue with your task.">>

\* C26 witness: the third stage of a chain was invoked after a first stage
\* with an empty result text and a second stage with the text "ok": its
\* prompt wraps "ok", the second stage's prompt wraps the empty text.
ChainPromptsWrapPreviousResultWitness ==
    /\ strategy.op = "chain"
    /\ Len(invocations) = 3
    /\ loops[1].result.result = <<>>
    /\ loops[2].result.result = <<"o", "k">>
    /\ Len(invocations[2].prompt) = 2
    /\ Len(invocations[3].prompt) = 4

\* C27: the first stage of a pipeline is invoked with the initial input, and
\* every later stage with the result text of the stage just before it, as
\* it is when that stage has no transform and as its transform returns it
\* when it has one; that stage succeeded.
PipelinePromptsAreTransformedResults ==
    strategy.op = "pipeline" =>
        \A j \in 1..Len(invocations) :
            IF j = 1
            THEN invocations[j].prompt = strategy.input
            ELSE /\ loops[j - 1].pc = "done" /\ loops[j - 1].result.success
                 /\ invocations[j].prompt =
                        IF strategy.specs[j - 1].transform = "none"
                        THEN loops[j - 1].result.result
                        ELSE ApplyTransform(strategy.specs[j - 1].transform,
                                            loops[j - 1].result.result)

\* C27 witness: a pipeline whose first stage has a transform and whose
\* second has none invoked its third stage: the second stage got the
\* transformed text of the first, the third the text of the second as it was.
PipelinePromptsAreTransformedResultsWitness ==
    /\ strategy.op = "pipeline"
    /\ Len(invocations) = 3
    /\ strategy.specs[1].transform = "mark"
    /\ strategy.specs[2].transform = "none"
    /\ loops[1].result.result = <<"o", "k">>
    /\ loops[2].result.result = <<"o", "k">>
    /\ invocations[2].prompt = <<"o", "k", "!">>
    /\ invocations[3].prompt = <<"o", "k">>

\* the pipeline call has returned its finalResult and stageResults
PipelineReturned == strategy.op = "pipeline" /\ strategy.pc = "done"

\* a pipeline constructs and invokes its stages in order, one after the
\* other has succeeded and its transform has returned
PipelineStopsAtFirstFailure ==
    /\ Len(adhoc) = Len(loops) /\ Len(invocations) = Len(loops)
    /\ Len(loops) <= Len(strategy.specs)
    /\ \A j \in 1..Len(loops) :
          /\ adhoc[j].name = strategy.specs[j].name
          /\ invocations[j].agent = strategy.specs[j].name
          /\ j < Len(loops) =>
                /\ loops[j].pc = "done" /\ loops[j].result.success
                /\ strategy.specs[j].transform # "raise"
    /\ PipelineReturned /\ loops # <<>> =>
          /\ loops[Len(loops)].pc = "done"
          /\ \/ ~loops[Len(loops)].result.success
             \/ Len(loops) = Len(strategy.specs)

\* C28 as stated: a pipeline invokes no stage after a failed one, and
\* returns the result of the last stage executed as finalResult and a
\* mapping with one entry for each stage executed, none for another.
PipelineMapsEveryExecutedStage ==
    strategy.op = "pipeline" =>
        /\ PipelineStopsAtFirstFailure
        /\ PipelineReturned /\ loops # <<>> =>
              /\ strategy.finalResult = loops[Len(loops)].result
              /\ Len(strategy.stageResults) = Len(loops)
              /\ \A j \in 1..Len(loops) :
                    /\ MapHas(strategy.stageResults, strategy.specs[j].name)
                    /\ MapGet(strategy.stageResults, strategy.specs[j].name)
                          = loops[j].result

\* the last of the first n stages that bears name
LastStageNamed(name, n) ==
    CHOOSE j \in 1..n :
        /\ strategy.specs[j].name = name
        /\ \A k \in (j + 1)..n : strategy.specs[k].name # name

\* the mapping holds one entry for each name borne by one of the first n
\* stages, the result of the last of them that bears it
StageResultsOfFirst(n) ==
    /\ MapKeys(strategy.stageResults) = {strategy.specs[j].name : j \in 1..n}
    /\ Len(strategy.stageResults) = Cardinality(MapKeys(strategy.stageResults))
    /\ \A name \in MapKeys(strategy.stageResults) :
          MapGet(strategy.stageResults, name) = loops[LastStageNamed(name, n)].result

\* C28 amended: a pipeline invokes no stage after a failed one; when it
\* returns, finalResult is the result of the last stage executed (the failure
\* "No stages executed" when the stage list is empty) and the mapping holds
\* one entry for each name borne by a stage executed, the result of the last
\* executed stage of that name, and none for another name; a transform that
\* raises ends the call with its exception after the stage's result was
\* stored, and no later stage is invoked.
PipelineMapsEveryExecutedName ==
    strategy.op = "pipeline" =>
        /\ PipelineStopsAtFirstFailure
        /\ PipelineReturned =>
              /\ strategy.finalResult =
                    IF loops = <<>> THEN Failure(<<"No stages executed">>)
                    ELSE loops[Len(loops)].result
              /\ StageResultsOfFirst(Len(loops))
        /\ strategy.pc = "threw" =>
              /\ loops[Len(loops)].result.success
              /\ strategy.specs[Len(loops)].transform = "raise"
              /\ StageResultsOfFirst(Len(loops))

\* C28 witness: a pipeline of stages named a, b, a returned after its third
\* stage failed: finalResult is that failure, and the mapping has the two
\* entries a and b, the entry a holding the failure of the third stage and
\* not the success of the first.
PipelineMapsEveryExecutedNameWitness ==
    /\ PipelineReturned
    /\ Len(loops) = 3
    /\ strategy.specs[1].name = "a" /\ strategy.specs[2].name = "b"
    /\ strategy.specs[3].name = "a"
    /\ loops[1].result.success /\ ~loops[3].result.success
    /\ strategy.finalResult = loops[3].result
    /\ Len(strategy.stageResults) = 2
    /\ MapGet(strategy.stageResults, "a") = loops[3].result

----------------------------------------------------------------------------
(* Properties of the fan-out, checked under SpecPar *)

\* runParallelAgents has returned its map
ParallelReturned == strategy.op = "parallel" /\ strategy.pc = "done"

\* the names of the agent list are pairwise distinct
DistinctNames(specs) ==
    \A i, j \in 1..Len(specs) : specs[i].name = specs[j].name => i = j

\* what the j-th run of the call made of its own engine's behaviour
\* (the last result event of its engine, unless the engine raised or ended
\* without one)
OwnResult(j) ==
    \/ loops[j].terminal # NoMessage /\ loops[j].result = MapResult(loops[j].terminal)
    \/ loops[j].result = NoResultReceived /\ loops[j].terminal = NoMessage
    \/ \E e \in ParThrown : loops[j].result = CatchResult(e)

\* the map returned for distinct names: one entry for each agent, that
\* agent's own result, every run having returned
ParallelResultsComplete ==
    (ParallelReturned /\ DistinctNames(strategy.specs)) =>
        /\ Len(loops) = Len(strategy.specs)
        /\ Len(invocations) = Len(strategy.specs)
        /\ Len(strategy.parResults) = Len(strategy.specs)
        /\ \A j \in 1..Len(strategy.specs) :
              /\ loops[j].pc = "done"
              /\ invocations[j].agent = strategy.specs[j].name
              /\ MapHas(strategy.parResults, strategy.specs[j].name)
              /\ MapGet(strategy.parResults, strategy.specs[j].name)
                    = loops[j].result
              /\ OwnResult(j)

\* a step of one run of a fan-out leaves every sibling's run, result and
\* agent as they were, and a run that has returned keeps its result
SiblingsUntouched ==
    (strategy.op = "parallel" /\ strategy'.op = "parallel") =>
        \A i \in 1..Len(loops) :
            /\ loops'[i] # loops[i] =>
                  \A j \in 1..Len(loops) :
                      j # i => loops'[j] = loops[j] /\ adhoc'[j] = adhoc[j]
            /\ loops[i].pc = "done" => loops'[i] = loops[i]

\* C4: a fan-out over N agents with pairwise distinct names returns only
\* after all N runs have returned, its map has exactly N entries, each
\* agent's entry being that agent's own result; a failed agent is recorded
\* as failed in its own entry, and no step of one run changes a sibling's
\* run or result.
ParallelFanOutComplete ==
    []ParallelResultsComplete /\ [][SiblingsUntouched]_vars

\* C4 witness: a fan-out over three distinct names has returned, the second
\* agent failed and the first and third succeeded.
ParallelFanOutWitness ==
    /\ ParallelReturned
    /\ Len(strategy.specs) = 3 /\ DistinctNames(strategy.specs)
    /\ Len(strategy.parResults) = 3
    /\ MapGet(strategy.parResults, strategy.specs[1].name).success
    /\ ~MapGet(strategy.parResults, strategy.specs[2].name).success
    /\ MapGet(strategy.parResults, strategy.specs[3].name).success

\* from the start of a fan-out on, every agent of the list has been made
\* and its engine called with the input, and the call waits as long as one
\* of the runs has not returned
FanOutAllStarted ==
    strategy.op = "parallel" =>
        /\ Len(adhoc) = Len(strategy.specs)
        /\ Len(loops) = Len(strategy.specs)
        /\ Len(invocations) = Len(strategy.specs)
        /\ \A j \in 1..Len(strategy.specs) :
              invocations[j] = [agent |-> strategy.specs[j].name,
                                prompt |-> strategy.input,
                                resume |-> Undefined]
        /\ (\E j \in 1..Len(loops) : loops[j].pc # "done") => strategy.pc = "await"

\* the step that starts a fan-out leaves every run whose engine was created
\* at its loop, and no later step of the call makes an engine call
FanOutStartsEveryRun ==
    /\ (strategy.op # "parallel" /\ strategy'.op = "parallel") =>
          \A j \in 1..Len(strategy'.specs) :
              loops'[j].pc = "done" => loops'[j].result # NoResultReceived
    /\ (strategy.op = "parallel" /\ strategy'.op = "parallel") =>
          invocations' = invocations /\ Len(loops') = Len(loops)

\* C29: a fan-out over N agents makes all N engine calls when it starts,
\* before any run has to return: the start of one agent's run does not wait
\* for another's, and a run that has not returned holds back the join only.
FanOutStartsAllBeforeAnyCompletes ==
    []FanOutAllStarted /\ [][FanOutStartsEveryRun]_vars

\* C29 witness: in a fan-out over three agents the first run has not
\* returned while the second and third, started with the same input, have;
\* the call is still waiting.
FanOutStartsAllBeforeAnyCompletesWitness ==
    /\ strategy.op = "parallel" /\ strategy.pc = "await"
    /\ Len(strategy.specs) = 3 /\ Len(invocations) = 3
    /\ loops[1].pc = "loop" /\ loops[1].terminal = NoMessage
    /\ loops[2].pc = "done" /\ loops[2].result.success
    /\ loops[3].pc = "done" /\ loops[3].result.success

\* C30: the map a fan-out returns has exactly one entry for each name of
\* the list, and the entry of a name holds the result of the last agent of
\* the list that bears it, in whatever order the runs returned.
FanOutLastOfNameWins ==
    ParallelReturned =>
        /\ MapKeys(strategy.parResults)
              = {strategy.specs[j].name : j \in 1..Len(strategy.specs)}
        /\ Len(strategy.parResults) = Cardinality(MapKeys(strategy.parResults))
        /\ \A name \in MapKeys(strategy.parResults) :
              MapGet(strategy.parResults, name)
                 = loops[LastStageNamed(name, Len(strategy.specs))].result

\* C30 witness: a fan-out over agents named a, b, a has returned; the first
\* agent succeeded and the third failed, and the map has two entries, the
\* entry a holding the third agent's failure.
FanOutLastOfNameWinsWitness ==
    /\ ParallelReturned
    /\ Len(strategy.specs) = 3
    /\ strategy.specs[1].name = strategy.specs[3].name
    /\ strategy.specs[2].name # strategy.specs[1].name
    /\ loops[1].result.success /\ ~loops[3].result.success
    /\ Len(strategy.parResults) = 2
    /\ MapGet(strategy.parResults, strategy.specs[1].name) = loops[3].result

----------------------------------------------------------------------------
(* Properties of the consensus, checked under SpecVote *)

\* runConsensusAgents has returned its winner and votes
ConsensusReturned == strategy.op = "consensus" /\ strategy.pc = "done"

\* the number of entries of the returned vote mapping that name opt
Tally(opt) ==
    Cardinality({j \in 1..Len(strategy.votes) : strategy.votes[j].value = opt})

\* no option has a higher tally than the i-th
TopTally(i) ==
    \A k \in 1..Len(strategy.options) :
        Tally(strategy.options[i]) >= Tally(strategy.options[k])

\* c is a decimal digit; the digit's value
IsDigit(c) == \E d \in 0..9 : Numeral(d) = <<c>>
DigitOf(c) == CHOOSE d \in 0..9 : Numeral(d) = <<c>>

\* the length of the run of digits text starts with, and the run's value
DigitRun(text) ==
    CHOOSE k \in 0..Len(text) :
        /\ \A i \in 1..k : IsDigit(text[i])
        /\ k < Len(text) => ~IsDigit(text[k + 1])

RunValue(text) ==
    LET k == DigitRun(text)
        v[i \in 0..k] == IF i = 0 THEN 0 ELSE 10 * v[i - 1] + DigitOf(text[i])
    IN v[k]

\* result r is successful and its text starts with a run of digits whose
\* value is the number of an option
ValidAnswer(r) ==
    /\ r.success
    /\ r.result # UndefinedText
    /\ DigitRun(r.result) >= 1
    /\ RunValue(r.result) \in 1..Len(strategy.options)

\* the last agent of the list that has the j-th agent's name
LastOfName(j) ==
    CHOOSE l \in 1..Len(strategy.specs) :
        /\ strategy.specs[l].name = strategy.specs[j].name
        /\ \A m \in 1..Len(strategy.specs) :
              strategy.specs[m].name = strategy.specs[j].name => m <= l

\* C5: whenever two or more options share the highest tally, the winner is
\* the tied option that comes first in the options list, whichever agents
\* cast the votes and in whichever order they were listed.
TieGoesToEarliestOption ==
    ConsensusReturned =>
        LET top == {i \in 1..Len(strategy.options) : TopTally(i)}
        IN Cardinality(top) >= 2 =>
              \A i \in top :
                  (\A k \in top : i <= k) => strategy.winner = strategy.options[i]

\* C6: when at least one valid vote was cast (the vote mapping is not empty,
\* or some agent gave a valid answer), the winner is an option of the list
\* whose tally is at least the tally of every other option.
WinnerHasHighestTally ==
    (/\ ConsensusReturned
     /\ \/ strategy.votes # <<>>
        \/ \E j \in 1..Len(loops) : ValidAnswer(loops[j].result)) =>
        \E i \in 1..Len(strategy.options) :
            strategy.winner = strategy.options[i] /\ TopTally(i)

\* C6 witness: options A, B, C and three agents voting A, B, B: the winner
\* is B with tallies B:2, A:1, C:0, though A was voted for first.
WinnerHasHighestTallyWitness ==
    /\ ConsensusReturned
    /\ strategy.options = <<"A", "B", "C">>
    /\ Len(strategy.votes) = 3
    /\ strategy.votes[1].value = "A"
    /\ Tally("A") = 1 /\ Tally("B") = 2 /\ Tally("C") = 0
    /\ strategy.winner = "B"

\* the names of the agents of the call
AgentNames == {strategy.specs[j].name : j \in 1..Len(strategy.specs)}

\* name has a vote exactly when r is a valid answer, and then the vote is
\* the option with the number r starts with
VoteFollows(name, r) ==
    /\ ValidAnswer(r) <=> MapHas(strategy.votes, name)
    /\ ValidAnswer(r) =>
          MapGet(strategy.votes, name) = strategy.options[RunValue(r.result)]

\* C7 as stated: every agent has a vote iff its own result is successful
\* and its text starts with a run of digits of value n in 1..number of
\* options, the vote being the n-th option; the others appear in no entry of
\* the vote mapping, and no error is raised.
EveryAgentVotesByOwnAnswer ==
    /\ strategy.op = "consensus" => strategy.pc # "threw"
    /\ ConsensusReturned =>
          /\ MapKeys(strategy.votes) \subseteq AgentNames
          /\ \A j \in 1..Len(strategy.specs) :
                VoteFollows(strategy.specs[j].name, loops[j].result)

\* C7 amended: an agent's name has a vote iff the result of the last listed
\* agent of that name (the agent itself when the names are distinct) is
\* successful and its text starts with a run of digits of value n in
\* 1..number of options, the vote being the n-th option; no other name has
\* an entry in the vote mapping, and no error is raised.
VotesFollowLastAnswerOfName ==
    /\ strategy.op = "consensus" => strategy.pc # "threw"
    /\ ConsensusReturned =>
          /\ MapKeys(strategy.votes) \subseteq AgentNames
          /\ \A j \in 1..Len(strategy.specs) :
                VoteFollows(strategy.specs[j].name, loops[LastOfName(j)].result)

\* C7 witness: of three agents with distinct names one failed, one answered
\* with a number that is out of range or with no leading number, and one
\* answered "2.B": the vote mapping has the one entry, for option B.
VotesFollowLastAnswerOfNameWitness ==
    /\ ConsensusReturned
    /\ Len(strategy.specs) = 3 /\ DistinctNames(strategy.specs)
    /\ Len(strategy.options) >= 2
    /\ \E i, j, k \in 1..3 :
          /\ ~loops[i].result.success
          /\ loops[j].result.success /\ ~ValidAnswer(loops[j].result)
          /\ loops[k].result.result = <<"2", ".", "B">>
          /\ strategy.votes = <<[key |-> strategy.specs[k].name, value |-> "B"]>>

\* C8: when no valid vote was cast at all (no agent gave a valid answer, or
\* the agent list is empty), the winner is the first option of the list
\* (absent when the list is empty) and the vote mapping is empty.
NoVoteDefaultsToFirstOption ==
    (/\ ConsensusReturned
     /\ \A j \in 1..Len(strategy.specs) : ~ValidAnswer(loops[j].result)) =>
        /\ strategy.votes = <<>>
        /\ strategy.winner = IF strategy.options = <<>> THEN Undefined
                              ELSE strategy.options[1]

\* C8 witness: of three agents one failed, one gave no leading number and
\* one gave the number 0; with two or more options the winner is the first
\* and the vote mapping is empty.
NoVoteDefaultsToFirstOptionWitness ==
    /\ ConsensusReturned
    /\ Len(strategy.specs) = 3
    /\ Len(strategy.options) >= 2
    /\ \E i, j, k \in 1..3 :
          /\ ~loops[i].result.success
          /\ loops[j].result.result = <<"x", "1">>
          /\ loops[k].result.result = <<"0">>
    /\ strategy.votes = <<>>
    /\ strategy.winner = strategy.options[1]

----------------------------------------------------------------------------
(* Properties of a BaseAgent used on its own, checked under SpecAgent *)

\* the last call on the agent was a run or a stream that ran to its end
CallCompleted ==
    /\ ret.op \in {"run", "stream"}
    /\ ret.outcome = "returned"
    /\ loops # <<>>
    /\ loops[1].pc = "done"
    /\ ret.value = loops[1].result

SessionFollowsResultEvents ==
    invocations # <<>> =>
        adhoc[1].sessionId = IF loops[1].terminal = NoMessage
                             THEN invocations[1].resume
                             ELSE loops[1].terminal.session_id

\* a step that sets an unset session reference is a setSessionId call, or
\* the handling of a result event by the call in flight
SessionSetBySetterOrResultEvent ==
    (adhoc[1].sessionId = Undefined /\ adhoc'[1].sessionId # Undefined) =>
        \/ /\ ret'.op = "setSessionId"
           /\ adhoc'[1].sessionId = ret'.args.text
        \/ /\ loops # <<>> /\ loops' # <<>>
           /\ loops'[1].terminal # loops[1].terminal
           /\ loops'[1].terminal.type = "result"
           /\ adhoc'[1].sessionId = loops'[1].terminal.session_id

RunReturnsRaisedErrorAsFailure ==
    ret.op = "run" =>
        /\ ret.outcome # "threw"
        /\ ret.error # NoError =>
              /\ ret.outcome = "returned"
              /\ loops[1].pc = "done" /\ loops[1].result = ret.value
              /\ ret.value = Failure(IF ret.error.isError
                                     THEN <<ret.error.message>>
                                     ELSE <<"Unknown error">>)

\* C19 witness: the engine raised the Error "boom" after a successful
\* result event, and the run returned the failure "boom".
RunReturnsRaisedErrorAsFailureWitness ==
    /\ ret.op = "run" /\ ret.outcome = "returned"
    /\ ret.error.isError
    /\ ret.terminal.type = "result" /\ ret.terminal.subtype = "success"
    /\ ~ret.value.success
    /\ ret.value.error = <<"boom">>

\* C20: a run whose event sequence ended without a result event returns the
\* failure "No result received", and the session reference is what it was
\* when the call started.
RunWithoutResultEvent ==
    (/\ ret.op = "run" /\ ret.outcome = "returned"
     /\ ret.error = NoError
     /\ ret.terminal = NoMessage) =>
        /\ ret.value = Failure(<<"No result received">>)
        /\ adhoc[1].sessionId = invocations[1].resume

\* C20 witness: a run resumed from session "s1" ended without a result
\* event: "No result received", the session still "s1".
RunWithoutResultEventWitness ==
    /\ ret.op = "run" /\ ret.outcome = "returned"
    /\ ret.error = NoError /\ ret.terminal = NoMessage
    /\ ret.value.error = <<"No result received">>
    /\ invocations[1].resume = "s1"
    /\ adhoc[1].sessionId = "s1"

\* C21 as stated: a call that ended with the end of the event sequence after
\* a result event returns, when the event's subtype is not success, a failure
\* with the subtype as error and the event's sub-error list as errors, and
\* when it is success, a success without error and errors; run and stream
\* alike.
TerminalEventMappedAlike ==
    (CallCompleted /\ ret.error = NoError /\ ret.terminal # NoMessage) =>
        IF ret.terminal.subtype = "success"
        THEN /\ ret.value.success
             /\ ret.value.error = UndefinedText
             /\ ret.value.errors = UndefinedText
        ELSE /\ ~ret.value.success
             /\ ret.value.error = <<ret.terminal.subtype>>
             /\ ret.value.errors = ret.terminal.errors

\* C22 as stated: a stream consumed to its end returns the AgentResult, and
\* leaves the session reference, that run returns and leaves for the same
\* session at the start, the same events and the same ending.
StreamEndsAsRun ==
    (CallCompleted /\ ret.op = "stream" /\ invocations # <<>>) =>
        LET asRun == RunOver(invocations[1].resume, loops[1].emitted, ret.error)
        IN /\ ret.value = asRun.value
           /\ adhoc[1].sessionId = asRun.sessionId

\* a stream call is in flight, or was the last call on the agent
StreamCalled == ret.op = "stream" /\ loops # <<>>

\* what the stream has yielded is what its engine has emitted, in that
\* order, and the stream suspended at a yield holds the last of them
YieldedAsEmitted ==
    StreamCalled =>
        /\ loops[1].yielded = loops[1].emitted
        /\ loops[1].pc = "yielded" =>
              loops[1].pending = loops[1].emitted[Len(loops[1].emitted)]

\* a step in which the engine emits an event: the generator had been resumed
\* after the yield of every event emitted before, and the step adds that
\* one event at the end of both lists
EmittedAfterYieldResumed ==
    (/\ StreamCalled /\ loops[1].pc # "done"
     /\ loops' # <<>> /\ loops'[1].emitted # loops[1].emitted) =>
        /\ loops[1].pc = "pulling"
        /\ loops[1].pending = NoMessage
        /\ loops[1].yielded = loops[1].emitted
        /\ Len(loops'[1].emitted) = Len(loops[1].emitted) + 1
        /\ SubSeq(loops'[1].emitted, 1, Len(loops[1].emitted)) = loops[1].emitted
        /\ loops'[1].yielded = loops'[1].emitted
        /\ loops'[1].pc = "yielded"

GetReturnsWhatWasSet ==
    /\ (ret.op = "setSessionId" /\ ret'.op = "getSessionId") =>
          ret'.value.sessionId = ret.args.text
    /\ (ret.op = "reset" /\ ret'.op = "getSessionId") =>
          ret'.value.sessionId = Undefined

\* C24: for every token x, getSessionId called right after setSessionId(x)
\* returns x, and getSessionId called right after reset returns undefined,
\* whatever run, stream, setSessionId and reset calls came before.
SessionAccessorRoundTrip == [][GetReturnsWhatWasSet]_vars

\* C24 witness: getSessionId has returned "s2" on an agent whose last run
\* or stream call is forgotten: the token came from setSessionId("s2").
SessionAccessorRoundTripWitness ==
    /\ ret.op = "getSessionId" /\ ret.outcome = "returned"
    /\ ret.value.sessionId = "s2"
    /\ adhoc[1].sessionId = "s2"
    /\ loops = <<>>

\* the last call was a run that ended in its catch block
RunCaught == ret.op = "run" /\ ret.outcome = "returned" /\ ret.error # NoError

\* C38 as stated: a run that ends through its catch block leaves the
\* session reference as it was when the call started, also when the engine
\* raised after a result event.
RunCaughtKeepsSession ==
    RunCaught => adhoc[1].sessionId = invocations[1].resume

\* C38 amended: a run that ends through its catch block leaves the session
\* reference as it was when the call started if the engine raised before the
\* run had handled a result event; if it raised after one, the session
\* reference is the session_id of the last result event handled, while the
\* failure returned carries no session.
RunCaughtKeepsLastEventSession ==
    RunCaught =>
        /\ adhoc[1].sessionId = IF ret.terminal = NoMessage
                                THEN invocations[1].resume
                                ELSE ret.terminal.session_id
        /\ ret.value.sessionId = Undefined
        /\ ~ret.value.success

\* C38 witness: a run resumed from session "s1" handled a result event of
\* session "s2", then the engine raised: the run returned a failure and the
\* session reference is "s2".
RunCaughtKeepsLastEventSessionWitness ==
    /\ RunCaught
    /\ invocations[1].resume = "s1"
    /\ ret.terminal.type = "result" /\ ret.terminal.session_id = "s2"
    /\ adhoc[1].sessionId = "s2"
    /\ ~ret.value.success

\* the consumer of the last stream call stopped iterating at the yield of a
\* result event, the first one of the call
StoppedAtTerminalEvent ==
    /\ StreamCalled /\ loops[1].pc = "done"
    /\ ret.outcome = "returned" /\ ret.value = NoValue
    /\ loops[1].pending.type = "result"
    /\ loops[1].terminal = NoMessage

\* the consumer of the last stream call drained the sequence, which held a
\* result event and ended without the engine raising
DrainedWithTerminalEvent ==
    /\ CallCompleted /\ ret.op = "stream"
    /\ ret.error = NoError /\ ret.terminal # NoMessage

\* a stream stopped at its terminal event has left the session reference
\* as it was before the call, a stream drained has set it to the session_id
\* of the last result event
SessionSetOnResume ==
    /\ StoppedAtTerminalEvent => adhoc[1].sessionId = invocations[1].resume
    /\ DrainedWithTerminalEvent =>
          /\ adhoc[1].sessionId = ret.terminal.session_id
          /\ \E k \in 1..Len(loops[1].emitted) :
                /\ loops[1].emitted[k] = ret.terminal
                /\ \A j \in (k + 1)..Len(loops[1].emitted) :
                      loops[1].emitted[j].type # "result"

\* the step in which the stream yields an event leaves the agent as it
\* was; the session reference changes in the step that resumes the stream
\* after the yield of a result event
YieldBeforeHandling ==
    (StreamCalled /\ loops' # <<>> /\ loops[1].pc # "done") =>
        /\ loops'[1].pc = "yielded" => adhoc' = adhoc
        /\ adhoc' # adhoc =>
              /\ loops[1].pc = "yielded" /\ loops'[1].pc = "pulling"
              /\ loops[1].pending.type = "result"
              /\ adhoc'[1].sessionId = loops[1].pending.session_id

\* C40: stream yields each event before it handles it: the session
\* reference is set from a result event when the consumer resumes the
\* stream after that event; a consumer that stops at the terminal event
\* leaves the session reference as it was before the call, one that drains
\* the sequence leaves it equal to the terminal event's session_id.
StreamSetsSessionOnResume ==
    []SessionSetOnResume /\ [][YieldBeforeHandling]_vars

\* C40 witness: the consumer of a stream resumed from session "s1" stopped
\* at the result event of session "s2"; the session reference is still "s1".
StreamSetsSessionOnResumeWitness ==
    /\ StoppedAtTerminalEvent
    /\ invocations[1].resume = "s1"
    /\ loops[1].pending.session_id = "s2"
    /\ adhoc[1].sessionId = "s1"

----------------------------------------------------------------------------
(* Properties of the five strategies taken together, checked under
   SpecStrategies *)

\* a strategy call is in flight or has ended
StrategyCalled == strategy.op # "none"

\* every engine call of the strategy call was made on an agent of the
\* call's own, the j-th call on the j-th agent made, without a resume token
OwnAgentsNoResume ==
    StrategyCalled =>
        /\ Len(adhoc) = Len(invocations) /\ Len(loops) = Len(invocations)
        /\ \A j \in 1..Len(invocations) :
              /\ invocations[j].agent = adhoc[j].name
              /\ invocations[j].resume = Undefined

\* a call starts with agents of its own, none of them left by a call
\* before, and a step that changes the session of one agent of a call
\* leaves the other agents of the call as they were
AgentsApart ==
    /\ (~StrategyCalled /\ strategy'.op # "none") =>
          /\ adhoc = <<>>
          /\ \A j \in 1..Len(adhoc') :
                loops'[j].terminal = NoMessage /\ adhoc'[j].sessionId = Undefined
    /\ (StrategyCalled /\ strategy'.op = strategy.op) =>
          \A i \in 1..Len(adhoc) :
              adhoc'[i] # adhoc[i] =>
                  \A j \in 1..Len(adhoc) : j # i => adhoc'[j] = adhoc[j]

\* C31: every engine call a strategy makes (chain, fan-out, consensus,
\* pipeline, supervisor) is made on an agent constructed inside that call
\* and carries no resume token: no session passes from one stage to the
\* next or from one call to the next, and the concurrent calls of a fan-out
\* are made on agents of their own.
StrategiesUseFreshAgents ==
    []OwnAgentsNoResume /\ [][AgentsApart]_vars

\* C31 witness: the second stage of a chain was invoked without a resume
\* token although the agent of the first stage holds the session "s1".
StrategiesUseFreshAgentsWitness ==
    /\ strategy.op = "chain"
    /\ Len(invocations) = 2
    /\ adhoc[1].sessionId = "s1"
    /\ invocations[2].resume = Undefined
    /\ adhoc[2].sessionId = Undefined

----------------------------------------------------------------------------
(* Properties of the Ralph loop, checked under SpecRalph *)

\* the script is started after a run of it was interrupted in or after its
\* first iteration
RalphRestarted ==
    /\ ~RalphRunning /\ ralph.exit = "interrupted"
    /\ ralph.ITERATION > 0
    /\ ralph'.pc = "while"

\* C34 as stated: when a loop is started again after an interruption, the
\* state file holds the number of iterations the interrupted run had come
\* to, and the new run takes up its count from there.
RalphResumesFromStateFile ==
    [][RalphRestarted =>
          /\ ralph.stateFile = ralph.ITERATION
          /\ ralph'.ITERATION = ralph.stateFile]_vars

----------------------------------------------------------------------------
(* Properties of overlapping run calls on one agent, checked under
   SpecOverlap *)

\* none of the calls made so far has handled a result event
NoTerminalEventYet == \A k \in 1..Len(loops) : loops[k].terminal = NoMessage

\* a call made while no call before it has handled a result event is
\* given the resume token the first call was given
SameResumeToken ==
    (Len(loops') = Len(loops) + 1 /\ loops # <<>> /\ NoTerminalEventYet) =>
        /\ invocations'[Len(loops')].resume = invocations[1].resume
        /\ invocations'[Len(loops')].resume = adhoc[1].sessionId

\* while calls are in flight or have returned, the session reference is
\* the session_id of the result event handled last, by whichever call, and
\* what it was before the calls when none has handled one
SessionOfLastEventHandled ==
    loops # <<>> =>
        adhoc[1].sessionId = IF ret.terminal = NoMessage
                             THEN invocations[1].resume
                             ELSE ret.terminal.session_id

\* C39: of two run calls that overlap on one agent, the second made before
\* the first has handled its terminal event, both engine calls carry the
\* session reference as it was before either call, and the session
\* reference after both have returned is the session_id of the terminal
\* event handled last, which may be that of the call made first.
OverlappingRunsLastEventWins ==
    []SessionOfLastEventHandled /\ [][SameResumeToken]_vars

\* C39 witness: two calls were made on an agent, both resumed from the
\* session the agent had before them; the second handled its terminal event, of a session
\* other than "s1", before the first handled its own, of session "s1"; both
\* have returned and the session reference is "s1".
OverlappingRunsLastEventWinsWitness ==
    /\ Len(loops) = 2
    /\ loops[1].pc = "done" /\ loops[2].pc = "done"
    /\ invocations[1].resume = invocations[2].resume
    /\ loops[1].terminal.type = "result" /\ loops[2].terminal.type = "result"
    /\ loops[1].terminal.session_id = "s1"
    /\ loops[2].terminal.session_id # "s1"
    /\ ret.terminal = loops[1].terminal
    /\ adhoc[1].sessionId = "s1"

====
